---- MODULE Spec2Model ----
(***************************************************************************)
(* Sitemap monitor: the feed store (RSSManager, src/services/rss-manager.js)*)
(* over a key-value store, the regex XML scanner (xml-parser.js, found in  *)
(* src/services/report-manager.js lines 262-483) and the scheduled pass    *)
(* (performScheduledMonitoring, src/index.js).                             *)
(*                                                                         *)
(* A URL is a string; Chars gives its characters, so that lower-casing,    *)
(* prefix tests, resolution and hashing are computed on the characters.    *)
(* A document is the sequence of its lexical items (tags and texts), and   *)
(* the scanner works on that sequence as the regular expressions of        *)
(* parseXMLCompat work on the text.                                        *)
(***************************************************************************)
EXTENDS Integers, Sequences, FiniteSets, TLC

Range(s) == {s[i] : i \in 1..Len(s)}

(***************************************************************************)
(* The sitemap URLs of the model and their characters.                     *)
(***************************************************************************)
UrlA == "http://a/s"

UrlC == "http://a/c"

UrlI == "http://a/i"

RelC == "/c"

UrlZ == "http://a/c.gz"

\* C with a trailing slash, and C in upper case
UrlCSlash == "http://a/c/"

UrlCUpper == "http://a/C"

HttpA == <<"h", "t", "t", "p", ":", "/", "/", "a">>

Chars ==
  (UrlA :> HttpA \o <<"/", "s">>) @@ (UrlC :> HttpA \o <<"/", "c">>) @@
  (UrlI :> HttpA \o <<"/", "i">>) @@
  (RelC :> <<"/", "c">>) @@
  (UrlZ :> HttpA \o <<"/", "c", ".", "g", "z">>) @@
  (UrlCSlash :> HttpA \o <<"/", "c", "/">>) @@ (UrlCUpper :> HttpA \o <<"/", "C">>)

\* the string with the given characters
StringOf(cs) == CHOOSE u \in DOMAIN Chars : Chars[u] = cs

URLs == {UrlC, UrlI}

UpperToLower == ("A" :> "a") @@ ("C" :> "c") @@ ("S" :> "s") @@ ("I" :> "i") @@ ("J" :> "j")

CharCode ==
  ("h" :> 104) @@ ("t" :> 116) @@ ("p" :> 112) @@ (":" :> 58) @@ ("/" :> 47) @@
  ("." :> 46) @@ ("g" :> 103) @@ ("z" :> 122) @@
  ("a" :> 97) @@ ("c" :> 99) @@ ("s" :> 115) @@ ("i" :> 105) @@ ("j" :> 106) @@
  ("A" :> 65) @@ ("C" :> 67) @@ ("S" :> 83) @@ ("I" :> 73) @@ ("J" :> 74)

ToLowerChar(c) == IF c \in DOMAIN UpperToLower THEN UpperToLower[c] ELSE c

ToLowerCase(cs) == [i \in 1..Len(cs) |-> ToLowerChar(cs[i])]

StartsWith(cs, prefix) == Len(cs) >= Len(prefix) /\ SubSeq(cs, 1, Len(prefix)) = prefix

EndsWith(cs, suffix) ==
  Len(cs) >= Len(suffix) /\ SubSeq(cs, Len(cs) - Len(suffix) + 1, Len(cs)) = suffix

(***************************************************************************)
(* generateUrlHash: djb2 over the lower-cased URL without one trailing     *)
(* slash, reduced to an unsigned 32-bit number (hash >>> 0).  The 32-bit   *)
(* value is kept as its two 16-bit halves <<high, low>>.                   *)
(***************************************************************************)
HashSeed == 5381

Pow16 == 65536

Word32(high, low) == <<(high + low \div Pow16) % Pow16, low % Pow16>>

CleanUrlKeepCase(cs) ==
  IF cs # <<>> /\ cs[Len(cs)] = "/" THEN SubSeq(cs, 1, Len(cs) - 1) ELSE cs

\* url.toLowerCase().replace(/\/$/, '')
CleanUrl(cs) ==
  LET low == ToLowerCase(cs)
  IN IF low # <<>> /\ low[Len(low)] = "/" THEN SubSeq(low, 1, Len(low) - 1) ELSE low

\* hash = ((hash << 5) + hash) + charCode, modulo 2^32
HashStep(hash, code) == Word32(hash[1] * 33, hash[2] * 33 + code)

RECURSIVE Djb2(_, _)
Djb2(hash, cs) ==
  IF cs = <<>> THEN hash
  ELSE Djb2(HashStep(hash, CharCode[Head(cs)]), Tail(cs))

\* generateUrlHash on the characters of the url
HashOfChars(cs) == Djb2(Word32(0, HashSeed), CleanUrl(cs))

generateUrlHash(url) == HashOfChars(Chars[url])

\* the storage key suffix of each URL of the model
UrlHash ==
  (UrlC :> generateUrlHash(UrlC)) @@ (UrlI :> generateUrlHash(UrlI)) @@
  (UrlZ :> generateUrlHash(UrlZ)) @@ (UrlA :> generateUrlHash(UrlA)) @@
  (UrlCSlash :> generateUrlHash(UrlCSlash)) @@ (UrlCUpper :> generateUrlHash(UrlCUpper))

(***************************************************************************)
(* URL resolution of a child entry of an index (processSitemapIndex).      *)
(***************************************************************************)
\* index of the n-th "/" of cs from position i on, or 0
RECURSIVE SlashAt(_, _, _)
SlashAt(cs, n, i) ==
  IF i > Len(cs) THEN 0
  ELSE IF cs[i] = "/" THEN (IF n = 1 THEN i ELSE SlashAt(cs, n - 1, i + 1))
  ELSE SlashAt(cs, n, i + 1)

\* new URL(u).origin : scheme://host, lower-cased
Origin(cs) ==
  LET k == SlashAt(cs, 3, 1)
  IN ToLowerCase(IF k = 0 THEN cs ELSE SubSeq(cs, 1, k - 1))

\* new URL(u).hostname
Hostname(url) ==
  LET o == Origin(Chars[url])
      k == SlashAt(o, 2, 1)
  IN SubSeq(o, k + 1, Len(o))

\* subUrl.startsWith('http') ? subUrl : new URL(subUrl, origin).href
AbsoluteUrl(subUrl, indexUrl) ==
  LET sub == Chars[subUrl]
  IN IF StartsWith(sub, <<"h", "t", "t", "p">>) THEN subUrl
     ELSE IF StartsWith(sub, <<"/">>) THEN StringOf(Origin(Chars[indexUrl]) \o sub)
     ELSE StringOf(Origin(Chars[indexUrl]) \o <<"/">> \o sub)

(***************************************************************************)
(* Documents and the regex scanner (parseXMLCompat).  The tags of the      *)
(* documents of the model are listed with the name the scanner compares.   *)
(***************************************************************************)
OpenTags ==
  ("<urlset>" :> "urlset") @@ ("<url>" :> "url") @@ ("<loc>" :> "loc") @@ ("<LOC>" :> "loc") @@
  ("<sitemapindex>" :> "sitemapindex") @@ ("<sitemap>" :> "sitemap") @@ ("<html>" :> "html")

CloseTags ==
  ("</urlset>" :> "urlset") @@ ("</url>" :> "url") @@ ("</loc>" :> "loc") @@ ("</LOC>" :> "loc") @@
  ("</sitemapindex>" :> "sitemapindex") @@ ("</sitemap>" :> "sitemap") @@ ("</html>" :> "html")

XmlDecl == "<?xml?>"

Blank == " "

Newline == "\n"

\* kv.get answers null for a missing key; the code only ever tests a value
\* for truthiness, under which null and the empty string are alike
NoContent == <<>>

\* the tag names that the pattern <tag[^>]*> accepts, lower-cased
Accepts ==
  ("loc" :> {"loc"}) @@ ("url" :> {"url", "urlset"}) @@ ("sitemap" :> {"sitemap", "sitemapindex"})

\* <tag[^>]*> , case-insensitive
IsOpen(item, tag) == item \in DOMAIN OpenTags /\ OpenTags[item] \in Accepts[tag]

\* <\/tag> , case-insensitive
IsClose(item, tag) == item \in DOMAIN CloseTags /\ CloseTags[item] = tag

IsText(item) == item \notin DOMAIN OpenTags \cup DOMAIN CloseTags \cup {XmlDecl, Newline}

\* position of the first closing tag from position i on, or 0
RECURSIVE CloseAfter(_, _, _)
CloseAfter(items, tag, i) ==
  IF i > Len(items) THEN 0
  ELSE IF IsClose(items[i], tag) THEN i
  ELSE CloseAfter(items, tag, i + 1)

\* a match of <tag[^>]*>(.*?)<\/tag> starting at position i: the position of
\* its closing tag, or 0.  Without the s flag the dot stops at a line break.
MatchEnd(items, tag, i, dotAll) ==
  IF ~IsOpen(items[i], tag) THEN 0
  ELSE LET j == CloseAfter(items, tag, i + 1)
       IN IF j = 0 THEN 0
          ELSE IF ~dotAll /\ \E m \in (i + 1)..(j - 1) : items[m] = Newline THEN 0
          ELSE j

\* all matches of the global pattern, left to right: the captured groups
RECURSIVE MatchAll(_, _, _, _)
MatchAll(items, tag, i, dotAll) ==
  IF i > Len(items) THEN <<>>
  ELSE LET j == MatchEnd(items, tag, i, dotAll)
       IN IF j = 0 THEN MatchAll(items, tag, i + 1, dotAll)
          ELSE <<SubSeq(items, i + 1, j - 1)>> \o MatchAll(items, tag, j + 1, dotAll)

\* querySelector(tag) inside a block: the first match, dot without s flag
RECURSIVE MatchFirst(_, _, _)
MatchFirst(items, tag, i) ==
  IF i > Len(items) THEN <<>>
  ELSE LET j == MatchEnd(items, tag, i, FALSE)
       IN IF j = 0 THEN MatchFirst(items, tag, i + 1)
          ELSE <<SubSeq(items, i + 1, j - 1)>>

\* textContent.trim(): the blanks around the text are dropped
Trim(group) == SelectSeq(group, LAMBDA item : item # Blank /\ item # Newline)

\* the trimmed, non-empty texts of a list of captured groups; a text of the
\* model is one item
RECURSIVE TextsOf(_)
TextsOf(groups) ==
  IF groups = <<>> THEN <<>>
  ELSE LET text == Trim(Head(groups))
       IN (IF text # <<>> THEN <<text[1]>> ELSE <<>>) \o TextsOf(Tail(groups))

\* documentElement.tagName of parseXML: the first XML declaration is removed,
\* then the first <...> names the root; "" when there is none
RECURSIVE DropFirstDecl(_)
DropFirstDecl(items) ==
  IF items = <<>> THEN <<>>
  ELSE IF Head(items) = XmlDecl THEN Tail(items)
  ELSE <<Head(items)>> \o DropFirstDecl(Tail(items))

RECURSIVE FirstTag(_)
FirstTag(items) ==
  IF items = <<>> THEN ""
  ELSE IF Head(items) \in DOMAIN OpenTags THEN OpenTags[Head(items)]
  ELSE IF Head(items) \in DOMAIN CloseTags \cup {XmlDecl} THEN Head(items)
  ELSE FirstTag(Tail(items))

rootTag(content) == FirstTag(DropFirstDecl(content))

extractURLs(xmlContent) == TextsOf(MatchAll(xmlContent, "loc", 1, FALSE))

RECURSIVE FirstLocs(_)
FirstLocs(blocks) ==
  IF blocks = <<>> THEN <<>>
  ELSE TextsOf(MatchFirst(Head(blocks), "loc", 1)) \o FirstLocs(Tail(blocks))

extractSitemapUrls(xmlContent) == FirstLocs(MatchAll(xmlContent, "sitemap", 1, TRUE))

(***************************************************************************)
(* The remote web: the documents the sitemap URLs may serve.               *)
(***************************************************************************)
MaxDay == 2

Days == 1..MaxDay

Page1 == "http://a/1"

Page2 == "http://a/2"

UrlEntry(loc) == <<"<url>", "<loc>", loc, "</loc>", "</url>">>

RECURSIVE UrlEntries(_)
UrlEntries(locs) ==
  IF locs = <<>> THEN <<>> ELSE UrlEntry(Head(locs)) \o UrlEntries(Tail(locs))

UrlSet(locs) == <<XmlDecl, "<urlset>">> \o UrlEntries(locs) \o <<"</urlset>">>

SitemapEntry(loc) ==
  <<"<sitemap>", Newline, "<loc>", Blank, loc, Blank, "</loc>", Newline, "</sitemap>">>

RECURSIVE SitemapEntries(_)
SitemapEntries(locs) ==
  IF locs = <<>> THEN <<>> ELSE SitemapEntry(Head(locs)) \o SitemapEntries(Tail(locs))

SitemapIndex(locs) == <<XmlDecl, "<sitemapindex>">> \o SitemapEntries(locs) \o <<"</sitemapindex>">>

HttpError == [ok |-> FALSE, body |-> NoContent]

Ok(body) == [ok |-> TRUE, body |-> body]

\* the urlsets a feed may serve: one page, then a second page appended
UrlSets == {UrlSet(<<Page1>>), UrlSet(<<Page1, Page2>>)}

\* the indexes I may serve: C written as an absolute address, as a relative
\* address, or listed twice
SitemapIndexes ==
  {SitemapIndex(<<UrlC>>), SitemapIndex(<<RelC>>), SitemapIndex(<<UrlC, RelC>>)}

\* what a GET of url may answer: I serves an index of C, C serves a urlset
Responses(url) ==
  IF url = UrlI THEN {HttpError} \cup {Ok(d) : d \in SitemapIndexes}
  ELSE {HttpError} \cup {Ok(d) : d \in UrlSets}

\* the URLs a check of url can fetch
Reach(url) == IF url = UrlI THEN {UrlI, UrlC} ELSE {url}

\* the states of the web that differ at the URLs of the set looked
WorldsOver(looked) ==
  {(UrlC :> c) @@ (UrlI :> i) :
     c \in IF UrlC \in looked THEN Responses(UrlC) ELSE {HttpError},
     i \in IF UrlI \in looked THEN Responses(UrlI) ELSE {HttpError}}

\* the location lists of the urlsets handed to compareSitemaps: up to MaxLocs
\* entries, repeated entries allowed
MaxLocs == 3

RECURSIVE LocLists(_)
LocLists(n) ==
  IF n = 0 THEN {<<>>}
  ELSE LocLists(n - 1) \cup {Append(locs, loc) : locs \in LocLists(n - 1), loc \in {Page1, Page2}}

\* the indexes of two children A and C: without an entry, with entries that
\* carry no location, with both children, and with C listed twice
ChildLists == {<<>>, <<UrlA, UrlC>>, <<UrlC, UrlA, RelC>>}

NoLocIndex ==
  <<XmlDecl, "<sitemapindex>", "<sitemap>", Newline, "</sitemap>", "</sitemapindex>">>

IndexDocuments == {SitemapIndex(locs) : locs \in ChildLists} \cup {NoLocIndex}

Contents == {UrlSet(locs) : locs \in LocLists(MaxLocs)} \cup SitemapIndexes \cup {NoContent}

\* the documents of the web, the contents compared, and the absent content
Documents ==
  {NoContent} \cup UrlSets \cup SitemapIndexes \cup Contents \cup IndexDocuments
    \cup {SitemapIndex(<<UrlI>>), SitemapIndex(<<UrlA>>)}

\* the scanner is a pure function of the document: what it answers on the
\* documents of the web, computed once
Scanned ==
  {<<content, [rootTag |-> rootTag(content),
               urls |-> extractURLs(content),
               sitemaps |-> extractSitemapUrls(content)]>> : content \in Documents}

Scan(content) == (CHOOSE entry \in Scanned : entry[1] = content)[2]

compareSitemapsKept(currentContent, oldContent) ==
  LET oldUrls == Scan(oldContent).urls
  IN SelectSeq(Scan(currentContent).urls, LAMBDA url : url \in Range(oldUrls))

RECURSIVE Once(_)
Once(urls) ==
  IF urls = <<>> THEN <<>>
  ELSE <<Head(urls)>> \o Once(SelectSeq(Tail(urls), LAMBDA url : url # Head(urls)))

compareSitemapsOnce(currentContent, oldContent) ==
  LET oldUrls == Scan(oldContent).urls
  IN Once(SelectSeq(Scan(currentContent).urls, LAMBDA url : url \notin Range(oldUrls)))

compareSitemapsTail(currentContent, oldContent) ==
  LET oldUrls == Scan(oldContent).urls
      others == IF oldUrls = <<>> THEN <<>> ELSE Tail(oldUrls)
  IN SelectSeq(Scan(currentContent).urls, LAMBDA url : url \notin Range(others))

\* currentUrls.filter(url => !oldUrls.includes(url))
compareSitemaps(currentContent, oldContent) ==
  LET oldUrls == Scan(oldContent).urls
  IN SelectSeq(Scan(currentContent).urls, LAMBDA url : url \notin Range(oldUrls))

(***************************************************************************)
(* The key-value store and the operations of RSSManager on it.  A store    *)
(* state st carries the keys: feeds is rss_feeds, cur is sitemap_current_h,*)
(* latest is sitemap_latest_h, dated is sitemap_dated_h_day and last is    *)
(* last_update_h.  It also carries the calendar day and a log of what the  *)
(* running operation did: the URLs it fetched, the URLs it wrote into      *)
(* rss_feeds, and the URLs whose cycle ended in the day-guard.             *)
(***************************************************************************)
Hashes == {UrlHash[u] : u \in URLs}

NoDate == 0

EmptyStore(day) ==
  [feeds |-> <<>>,
   cur |-> [h \in Hashes |-> NoContent],
   latest |-> [h \in Hashes |-> NoContent],
   dated |-> [k \in Hashes \X Days |-> NoContent],
   last |-> [h \in Hashes |-> NoDate],
   today |-> day,
   fetched |-> {}, listed |-> {}, guarded |-> {}]

ClearLog(st) == [st EXCEPT !.fetched = {}, !.listed = {}, !.guarded = {}]

\* the keys of the store and their values
Keys(st) == <<st.feeds, st.cur, st.latest, st.dated, st.last>>

Result(success, errorMsg, datedFile, newUrls) ==
  [success |-> success, errorMsg |-> errorMsg, datedFile |-> datedFile, newUrls |-> newUrls,
   subSitemaps |-> 0, successCount |-> 0, errorCount |-> 0, newFeedsAdded |-> 0]

getFeeds(st) == st.feeds

putFeeds(st, feeds) == [st EXCEPT !.feeds = feeds, !.listed = @ \cup Range(feeds)]

getSitemapContent(st, url, type) ==
  LET urlHash == UrlHash[url]
  IN CASE type = "current" -> st.cur[urlHash]
       [] type = "latest" -> st.latest[urlHash]
       [] type = "dated" -> st.dated[<<urlHash, st.today>>]

DayGuardNever(forceUpdate, lastUpdate, today) == FALSE

DayGuardForced(forceUpdate, lastUpdate, today) == lastUpdate = today

\* if (!forceUpdate && lastUpdate === today)
DayGuard(forceUpdate, lastUpdate, today) == ~forceUpdate /\ lastUpdate = today

\* the URLs a check of url can send a GET to: the day-guard stops the cycle
\* of a URL before its GET
Fetchable(st, url, forceUpdate) ==
  {u \in Reach(url) : ~DayGuard(u = url /\ forceUpdate, st.last[UrlHash[u]], st.today)}

\* the states of the web that a check of url can tell apart
Worlds(st, url, forceUpdate) == WorldsOver(Fetchable(st, url, forceUpdate))

SkipResultNone(currentContent, latestContent) == Result(TRUE, "todayDone", FALSE, <<>>)

\* the answer of a cycle stopped by the day-guard
SkipResult(currentContent, latestContent) ==
  IF currentContent # NoContent /\ latestContent # NoContent
  THEN LET newUrls == compareSitemaps(currentContent, latestContent)
       IN IF Len(newUrls) > 0 THEN Result(TRUE, "todayNew", FALSE, newUrls)
          ELSE Result(TRUE, "todayNone", FALSE, <<>>)
  ELSE Result(TRUE, "todayDone", FALSE, <<>>)

ErrorResult == Result(FALSE, "download failed", FALSE, <<>>)

\* newUrls of a fetched document against the stored current
NewUrlsOf(newContent, currentContent) ==
  IF currentContent # NoContent THEN compareSitemaps(newContent, currentContent) ELSE <<>>

\* the four writes of a stored check: latest, current, dated, last_update
SaveSitemap(st, urlHash, newContent) ==
  LET currentContent == st.cur[urlHash]
  IN [st EXCEPT !.latest[urlHash] = IF currentContent # NoContent THEN currentContent ELSE @,
                !.cur[urlHash] = newContent,
                !.dated[<<urlHash, st.today>>] = newContent,
                !.last[urlHash] = st.today]

RECURSIVE downloadSitemap(_, _, _, _)
RECURSIVE processSitemapIndex(_, _, _, _)
RECURSIVE ProcessSubSitemaps(_, _, _, _, _)
RECURSIVE ProcessSubSitemap(_, _, _)

\* downloadSitemap after the day-guard let it pass: the GET, then the index
\* branch or the stored check
FetchAndSave(st, url, urlHash, response, w) ==
  IF ~response.ok THEN [st |-> st, r |-> ErrorResult]
  ELSE IF Scan(response.body).rootTag = "sitemapindex"
       THEN processSitemapIndex(st, url, response.body, w)
  ELSE [st |-> SaveSitemap(st, urlHash, response.body),
        r |-> Result(TRUE, "", TRUE, NewUrlsOf(response.body, st.cur[urlHash]))]

\* downloadSitemap(url, forceUpdate) in the web w: the store afterwards and
\* the result
downloadSitemap(st, url, forceUpdate, w) ==
  IF DayGuard(forceUpdate, st.last[UrlHash[url]], st.today)
  THEN [st |-> [st EXCEPT !.guarded = @ \cup {url}],
        r |-> SkipResult(st.cur[UrlHash[url]], st.latest[UrlHash[url]])]
  ELSE FetchAndSave([st EXCEPT !.fetched = @ \cup {url}], url, UrlHash[url], w[url], w)

\* one child of an index: it joins the local copy of the monitored list when
\* it is not in it, and the result d of its download is counted
CountSubSitemapAfterError(acc, absoluteUrl, isNew, d) ==
  [st |-> d.st,
   feeds |-> IF isNew THEN Append(acc.feeds, absoluteUrl) ELSE acc.feeds,
   newFeedsAdded |-> IF isNew THEN acc.newFeedsAdded + 1 ELSE acc.newFeedsAdded,
   totalNewUrls |-> IF d.r.success /\ acc.errorCount = 0 THEN acc.totalNewUrls \o d.r.newUrls
                    ELSE acc.totalNewUrls,
   successCount |-> IF d.r.success THEN acc.successCount + 1 ELSE acc.successCount,
   errorCount |-> IF d.r.success THEN acc.errorCount ELSE acc.errorCount + 1]

CountSubSitemapTwice(acc, absoluteUrl, isNew, d) ==
  [st |-> d.st,
   feeds |-> IF isNew THEN Append(acc.feeds, absoluteUrl) ELSE acc.feeds,
   newFeedsAdded |-> IF isNew THEN acc.newFeedsAdded + 1 ELSE acc.newFeedsAdded,
   totalNewUrls |-> IF d.r.success THEN acc.totalNewUrls \o d.r.newUrls
                    ELSE acc.totalNewUrls,
   successCount |-> acc.successCount + 1,
   errorCount |-> IF d.r.success THEN acc.errorCount ELSE acc.errorCount + 1]

CountSubSitemap(acc, absoluteUrl, isNew, d) ==
  [st |-> d.st,
   feeds |-> IF isNew THEN Append(acc.feeds, absoluteUrl) ELSE acc.feeds,
   newFeedsAdded |-> IF isNew THEN acc.newFeedsAdded + 1 ELSE acc.newFeedsAdded,
   totalNewUrls |-> IF d.r.success THEN acc.totalNewUrls \o d.r.newUrls
                    ELSE acc.totalNewUrls,
   successCount |-> IF d.r.success THEN acc.successCount + 1 ELSE acc.successCount,
   errorCount |-> IF d.r.success THEN acc.errorCount ELSE acc.errorCount + 1]

\* the body of the loop for the child absoluteUrl
ProcessSubSitemap(acc, absoluteUrl, w) ==
  CountSubSitemap(acc, absoluteUrl, absoluteUrl \notin Range(acc.feeds),
                  downloadSitemap(acc.st, absoluteUrl, FALSE, w))

\* the loop over the children of an index from child i on; acc carries the
\* store, the local copy of the monitored list and the counters
ProcessSubSitemaps(acc, subSitemaps, i, indexUrl, w) ==
  IF i > Len(subSitemaps) THEN acc
  ELSE ProcessSubSitemaps(
         ProcessSubSitemap(acc, AbsoluteUrl(subSitemaps[i], indexUrl), w),
         subSitemaps, i + 1, indexUrl, w)

\* after the loop: the list is written when a child joined it
IndexResult(acc, subSitemaps) ==
  [st |-> IF acc.newFeedsAdded > 0 THEN putFeeds(acc.st, acc.feeds) ELSE acc.st,
   r |-> [Result(TRUE, "processed", FALSE, acc.totalNewUrls) EXCEPT
            !.subSitemaps = Len(subSitemaps),
            !.successCount = acc.successCount,
            !.errorCount = acc.errorCount,
            !.newFeedsAdded = acc.newFeedsAdded]]

ExpandIndexAlways(st, indexUrl, subSitemaps, w) ==
  IndexResult(
    ProcessSubSitemaps(
      [st |-> st, feeds |-> getFeeds(st), newFeedsAdded |-> 0,
       totalNewUrls |-> <<>>, successCount |-> 0, errorCount |-> 0],
      subSitemaps, 1, indexUrl, w),
    subSitemaps)

\* processSitemapIndex over the extracted children
ExpandIndex(st, indexUrl, subSitemaps, w) ==
  IF Len(subSitemaps) = 0
  THEN [st |-> st, r |-> Result(FALSE, "no sub sitemap", FALSE, <<>>)]
  ELSE IndexResult(
         ProcessSubSitemaps(
           [st |-> st, feeds |-> getFeeds(st), newFeedsAdded |-> 0,
            totalNewUrls |-> <<>>, successCount |-> 0, errorCount |-> 0],
           subSitemaps, 1, indexUrl, w),
         subSitemaps)

processSitemapIndex(st, indexUrl, indexContent, w) ==
  ExpandIndex(st, indexUrl, Scan(indexContent).sitemaps, w)

AppendsFeedAlways(isNew, success) == isNew

AppendsFeedAgain(isNew, success) == success

\* addFeed appends a new url when its cycle succeeded
AppendsFeed(isNew, success) == isNew /\ success

\* addFeed after its download d: feeds is the list read before the download
AfterDownload(feeds, url, forceUpdate, d) ==
  IF AppendsFeed(url \notin Range(feeds), d.r.success)
  THEN [st |-> putFeeds(d.st, Append(feeds, url)),
        r |-> [d.r EXCEPT !.errorMsg = IF @ = "" THEN "added" ELSE @]]
  ELSE IF ~d.r.success THEN d
  ELSE [st |-> d.st,
        r |-> [d.r EXCEPT !.errorMsg = IF forceUpdate THEN "forced" ELSE "exists"]]

addFeed(st, url, forceUpdate, w) ==
  AfterDownload(getFeeds(st), url, forceUpdate, downloadSitemap(st, url, forceUpdate, w))

\* the list with its last element moved to the place of url
RemoveFirstSwap(feeds, url) ==
  SubSeq([i \in 1..Len(feeds) |-> IF feeds[i] = url THEN feeds[Len(feeds)] ELSE feeds[i]],
         1, Len(feeds) - 1)

\* feeds.splice(feeds.indexOf(url), 1)
RECURSIVE RemoveFirst(_, _)
RemoveFirst(feeds, url) ==
  IF feeds = <<>> THEN <<>>
  ELSE IF Head(feeds) = url THEN Tail(feeds)
  ELSE <<Head(feeds)>> \o RemoveFirst(Tail(feeds), url)

IncludesAlways(feeds, url) == TRUE

\* feeds.includes(url)
Includes(feeds, url) == url \in Range(feeds)

removeFeed(st, url) ==
  LET feeds == getFeeds(st)
  IN IF ~Includes(feeds, url)
     THEN [st |-> st, r |-> Result(FALSE, "not found", FALSE, <<>>)]
     ELSE [st |-> putFeeds(st, RemoveFirst(feeds, url)), r |-> Result(TRUE, "", FALSE, <<>>)]

(***************************************************************************)
(* The scheduled pass, one feed at a time (performScheduledMonitoring).    *)
(***************************************************************************)
\* the dead test on the message of a result (index.js line 84)
IsUnchangedMsg(errorMsg) == errorMsg = "unchanged, skipped"

RecordsChangeEmpty(result) == result.success /\ ~IsUnchangedMsg(result.errorMsg)

\* a change is recorded for a successful result with new URLs
RecordsChange(result) ==
  result.success /\ ~IsUnchangedMsg(result.errorMsg) /\ Len(result.newUrls) > 0

ChangeEntry(st, url, result) ==
  [url |-> url, domain |-> Hostname(url), newUrls |-> result.newUrls,
   sitemapContent |-> IF result.datedFile THEN getSitemapContent(st, url, "dated")
                      ELSE NoContent]

NextFeedAbort(i, result, raised) == IF result.success /\ ~raised THEN i + 1 ELSE i + 2

\* the feed checked after feed i, whatever the result of its check and also
\* when the notifier raised
NextFeed(i, result, raised) == i + 1

(***************************************************************************)
(* State.                                                                  *)
(*   store           the key-value store, the day and the log of the last  *)
(*                   operation                                             *)
(*   res             the last operation: its name, arguments, the body its *)
(*                   own GET received and its result                       *)
(*   pc, feedsRead, idx, sitemapChanges                                    *)
(*                   the running pass: its position, the list it read, the *)
(*                   loop index and the changes collected                  *)
(*   checked         per feed of the running pass: the url addFeed was     *)
(*                   called with, its result, whether the notifier raised  *)
(*   notified        the new page URLs that the passes of today recorded   *)
(*                   and handed to the notifier                            *)
(*   calledToday     per URL, whether addFeed(url) without forceUpdate was *)
(*                   called today ("called") and whether such a call       *)
(*                   returned success without expanding an index ("ok")    *)
(***************************************************************************)
VARIABLES store, res, pc, feedsRead, idx, sitemapChanges, checked, notified, calledToday

vars == <<store, res, pc, feedsRead, idx, sitemapChanges, checked, notified, calledToday>>

NoResult == Result(FALSE, "", FALSE, <<>>)

Op(name, url, forceUpdate, body, result) ==
  [op |-> name, url |-> url, forceUpdate |-> forceUpdate, body |-> body, r |-> result]

\* the body the operation's own GET of url received, if it made one
BodyOf(st, url, w) == IF url \in st.fetched /\ w[url].ok THEN w[url].body ELSE NoContent

\* the record of a call addFeed(url) without forceUpdate
Called(url, body, result) ==
  [calledToday EXCEPT ![url] = IF @ = "ok" \/ (result.success /\ Scan(body).rootTag # "sitemapindex")
                               THEN "ok" ELSE "called"]

Init ==
  /\ store = EmptyStore(1)
  /\ res = Op("init", "", FALSE, NoContent, NoResult)
  /\ pc = "idle"
  /\ feedsRead = <<>>
  /\ idx = 0
  /\ sitemapChanges = <<>>
  /\ checked = <<>>
  /\ notified = {}
  /\ calledToday = [u \in URLs |-> "no"]

passVars == <<pc, feedsRead, idx, sitemapChanges, checked, notified>>

\* /rss add URL calls addFeed(url); /news calls addFeed(url, true) for the
\* monitored feeds
AddFeed(url, forceUpdate) ==
  /\ pc = "idle"
  /\ forceUpdate => url \in Range(getFeeds(store))
  /\ \E w \in Worlds(store, url, forceUpdate) :
       \E d \in {addFeed(ClearLog(store), url, forceUpdate, w)} :
          /\ store' = d.st
          /\ res' = Op("addFeed", url, forceUpdate, BodyOf(d.st, url, w), d.r)
          /\ calledToday' = IF forceUpdate THEN calledToday
                            ELSE Called(url, BodyOf(d.st, url, w), d.r)
  /\ UNCHANGED passVars

\* /rss del URL
RemoveFeed(url) ==
  /\ pc = "idle"
  /\ \E d \in {removeFeed(ClearLog(store), url)} :
        /\ store' = d.st
        /\ res' = Op("removeFeed", url, FALSE, NoContent, d.r)
  /\ UNCHANGED <<passVars, calledToday>>

\* POST /debug/sitemap : downloadSitemap(url, true)
DebugSitemap(url) ==
  /\ pc = "idle"
  /\ \E w \in Worlds(store, url, TRUE) :
       \E d \in {downloadSitemap(ClearLog(store), url, TRUE, w)} :
          /\ store' = d.st
          /\ res' = Op("downloadSitemap", url, TRUE, BodyOf(d.st, url, w), d.r)
  /\ UNCHANGED <<passVars, calledToday>>

\* midnight (UTC)
NextDay ==
  /\ pc = "idle"
  /\ store.today < MaxDay
  /\ store' = [ClearLog(store) EXCEPT !.today = @ + 1]
  /\ res' = Op("nextDay", "", FALSE, NoContent, NoResult)
  /\ notified' = {}
  /\ calledToday' = [u \in URLs |-> "no"]
  /\ UNCHANGED <<pc, feedsRead, idx, sitemapChanges, checked>>

\* the pass reads the monitored list; it returns at once when the list is empty
PassStart ==
  /\ pc = "idle"
  /\ LET feeds == getFeeds(store)
     IN /\ pc' = IF Len(feeds) = 0 THEN "idle" ELSE "loop"
        /\ feedsRead' = IF Len(feeds) = 0 THEN <<>> ELSE feeds
        /\ idx' = IF Len(feeds) = 0 THEN 0 ELSE 1
  /\ store' = ClearLog(store)
  /\ res' = Op("passStart", "", FALSE, NoContent, NoResult)
  /\ UNCHANGED <<sitemapChanges, checked, notified, calledToday>>

\* one iteration of the loop: addFeed(url), the change entry, the notifier
PassFeed ==
  /\ pc = "loop"
  /\ idx <= Len(feedsRead)
  /\ \E url \in {feedsRead[idx]} :
       \E w \in Worlds(store, url, FALSE), raised \in BOOLEAN :
         \E d \in {addFeed(ClearLog(store), url, FALSE, w)} :
           \E recorded \in {RecordsChange(d.r)} :
             /\ raised => recorded
             /\ store' = d.st
             /\ res' = Op("passFeed", url, FALSE, BodyOf(d.st, url, w), d.r)
             /\ sitemapChanges' = IF recorded
                                  THEN Append(sitemapChanges, ChangeEntry(d.st, url, d.r))
                                  ELSE sitemapChanges
             /\ notified' = IF recorded THEN notified \cup Range(d.r.newUrls) ELSE notified
             /\ checked' = Append(checked, [url |-> url, r |-> d.r, raised |-> raised])
             /\ calledToday' = Called(url, BodyOf(d.st, url, w), d.r)
             /\ idx' = NextFeed(idx, d.r, raised)
  /\ UNCHANGED <<pc, feedsRead>>

\* after the loop: the report over the collected changes, and the pass is over
PassEnd ==
  /\ pc = "loop"
  /\ idx > Len(feedsRead)
  /\ pc' = "idle"
  /\ feedsRead' = <<>>
  /\ idx' = 0
  /\ sitemapChanges' = <<>>
  /\ checked' = <<>>
  /\ store' = ClearLog(store)
  /\ res' = Op("passEnd", "", FALSE, NoContent, NoResult)
  /\ UNCHANGED <<notified, calledToday>>

Next ==
  \/ \E url \in URLs, forceUpdate \in BOOLEAN : AddFeed(url, forceUpdate)
  \/ \E url \in URLs : RemoveFeed(url)
  \/ \E url \in URLs : DebugSitemap(url)
  \/ NextDay
  \/ PassStart
  \/ PassFeed
  \/ PassEnd

Spec == Init /\ [][Next]_vars

(***************************************************************************)
(* The monitored list alone: removeFeed on every list of up to MaxFeeds    *)
(* distinct URLs that addFeed can have built.                              *)
(***************************************************************************)
MaxFeeds == 3

UrlJ == "http://a/j"

FeedNames == {UrlA, UrlC, UrlI, UrlJ}

\* the lists of n distinct URLs
RECURSIVE FeedLists(_)
FeedLists(n) ==
  IF n = 0 THEN {<<>>}
  ELSE UNION {{Append(feeds, url) : url \in FeedNames \ Range(feeds)} :
                feeds \in FeedLists(n - 1)}

FeedListInit ==
  /\ \E n \in 0..MaxFeeds : \E feeds \in FeedLists(n) :
       store = [EmptyStore(1) EXCEPT !.feeds = feeds]
  /\ res = Op("init", "", FALSE, NoContent, NoResult)
  /\ pc = "idle"
  /\ feedsRead = <<>>
  /\ idx = 0
  /\ sitemapChanges = <<>>
  /\ checked = <<>>
  /\ notified = {}
  /\ calledToday = [u \in URLs |-> "no"]

FeedListNext == \E url \in FeedNames : RemoveFeed(url)

FeedListSpec == FeedListInit /\ [][FeedListNext]_vars

(***************************************************************************)
(* compareSitemaps on its own: every call on a pair of contents.           *)
(***************************************************************************)
Compared(currentContent, oldContent, newUrls) ==
  [op |-> "compareSitemaps", currentContent |-> currentContent, oldContent |-> oldContent,
   newUrls |-> newUrls]

CompareSitemaps(currentContent, oldContent) ==
  /\ res' = Compared(currentContent, oldContent, compareSitemaps(currentContent, oldContent))
  /\ UNCHANGED <<store, pc, feedsRead, idx, sitemapChanges, checked, notified, calledToday>>

DiffNext == \E currentContent \in Contents, oldContent \in Contents :
              CompareSitemaps(currentContent, oldContent)

DiffSpec == Init /\ [][DiffNext]_vars

(***************************************************************************)
(* downloadSitemap and /debug/reset one awaited operation at a time.  Each *)
(* kv.get, kv.put and kv.delete either answers or rejects; the fetch       *)
(* answers a document, a status outside 200-299, or fails.  The feeds of   *)
(* this specification serve urlsets (or an empty body), and a behaviour is *)
(* the operations on one of them, plain or gzipped.  Next to the keys the  *)
(* store records how many downloads were made and, for the current and the *)
(* latest snapshot of each hash, the download that produced it.            *)
(***************************************************************************)
MaxDownloads == 3

KvUrls == {UrlC, UrlZ}

KvHashes == {UrlHash[u] : u \in KvUrls}

KvStore(day) ==
  [feeds |-> <<>>,
   cur |-> [h \in KvHashes |-> NoContent],
   latest |-> [h \in KvHashes |-> NoContent],
   dated |-> [k \in KvHashes \X Days |-> NoContent],
   last |-> [h \in KvHashes |-> NoDate],
   today |-> day,
   downloads |-> 0,
   curAt |-> [h \in KvHashes |-> 0],
   latestAt |-> [h \in KvHashes |-> 0]]

\* url.endsWith('.gz')
IsGzipped(url) == EndsWith(Chars[url], <<".", "g", "z">>)

Fetched(kind, status, body) == [kind |-> kind, status |-> status, body |-> body]

\* what the GET and the reading of its body may come to
Fetches(url) ==
  {Fetched("ok", 200, body) : body \in UrlSets \cup {NoContent}}
  \cup {Fetched("status", status, NoContent) : status \in {404, 503}}
  \cup {Fetched("transport", 0, NoContent)}
  \cup (IF IsGzipped(url) THEN {Fetched("nobody", 200, NoContent), Fetched("gzip", 200, NoContent)}
        ELSE {})

\* error.message of what the fetch outcome throws
FetchError(fetched) ==
  CASE fetched.kind = "status" -> <<"HTTP", fetched.status>>
    [] fetched.kind = "transport" -> <<"fetch failed">>
    [] fetched.kind = "nobody" -> <<"Response body is null">>
    [] fetched.kind = "gzip" -> <<"decompression failed">>

\* the four keys of a feed that a check of the given day writes
Slots(st, url, today) ==
  <<st.latest[UrlHash[url]], st.cur[UrlHash[url]], st.dated[<<UrlHash[url], today>>],
    st.last[UrlHash[url]]>>

\* the call frame of a running or finished operation: its arguments and
\* locals, the keys it has written, and how it ended
Frame(op, url, forceUpdate, today) ==
  [op |-> op, url |-> url, forceUpdate |-> forceUpdate, today |-> today, written |-> {},
   before |-> <<>>,
   lastUpdate |-> NoDate, currentContent |-> NoContent, currentAt |-> 0,
   newContent |-> NoContent, stamp |-> 0,
   thrown |-> "", error |-> <<>>, raised |-> FALSE, done |-> FALSE, r |-> NoResult]

\* the frame of an operation that has ended: the locals are gone, newContent
\* is kept as the body the operation received
Ended(frame) ==
  [frame EXCEPT !.done = TRUE, !.today = NoDate, !.lastUpdate = NoDate, !.before = <<>>,
                !.currentContent = NoContent, !.currentAt = 0, !.stamp = 0]

\* the positions of downloadSitemap inside its try block
TryBlockFetch == {"fetch"}

TryBlock ==
  {"lastUpdate", "guardCurrent", "guardLatest", "fetch", "current",
   "putLatest", "putCurrent", "putDated", "putLastUpdate"}

\* catch (error): the result of the catch block
CatchResult(error) == Result(FALSE, <<"download failed", error>>, FALSE, <<>>)

Return(frame, result) == [Ended(frame) EXCEPT !.r = result]

\* an exception thrown at a position: caught inside the try block, raised to
\* the caller outside of it
Throw(frame, position, error) ==
  IF position \in TryBlock
  THEN [Ended(frame) EXCEPT !.thrown = position, !.error = error, !.r = CatchResult(error)]
  ELSE [Ended(frame) EXCEPT !.thrown = position, !.error = error, !.raised = TRUE]

\* what kv.put(sitemap_latest) is given
LatestValueNew(frame) == [content |-> frame.newContent, at |-> frame.stamp]

LatestValue(frame) == [content |-> frame.currentContent, at |-> frame.currentAt]

AfterPutNoArchive(position) ==
  CASE position = "putLatest" -> "putCurrent"
    [] position = "putCurrent" -> "putLastUpdate"
    [] position = "putDated" -> "putLastUpdate"

\* the put that follows a put: latest, current, dated, last_update
AfterPut(position) ==
  CASE position = "putLatest" -> "putCurrent"
    [] position = "putCurrent" -> "putDated"
    [] position = "putDated" -> "putLastUpdate"

kvVars == <<feedsRead, idx, sitemapChanges, checked, notified, calledToday>>

KvInit ==
  /\ store = KvStore(1)
  /\ \E url \in KvUrls : res = Return(Frame("init", url, FALSE, 1), NoResult)
  /\ pc = "idle"
  /\ feedsRead = <<>>
  /\ idx = 0
  /\ sitemapChanges = <<>>
  /\ checked = <<>>
  /\ notified = {}
  /\ calledToday = [u \in URLs |-> "no"]

\* downloadSitemap(url, forceUpdate) is called: urlHash and today are computed
Call(url, forceUpdate) ==
  /\ pc = "idle"
  /\ url = res.url
  /\ store.downloads < MaxDownloads
  /\ res' = [Frame("downloadSitemap", url, forceUpdate, store.today)
               EXCEPT !.before = Slots(store, url, store.today)]
  /\ pc' = "lastUpdate"
  /\ UNCHANGED <<store, kvVars>>

\* kv.get(last_update), then the day-guard
GetLastUpdate ==
  /\ pc = "lastUpdate"
  /\ \E ok \in BOOLEAN :
       IF ok
       THEN LET lastUpdate == store.last[UrlHash[res.url]]
            IN /\ res' = [res EXCEPT !.lastUpdate = lastUpdate]
               /\ pc' = IF DayGuard(res.forceUpdate, lastUpdate, res.today)
                        THEN "guardCurrent" ELSE "fetch"
       ELSE /\ res' = Throw(res, "lastUpdate", <<"kv get">>)
            /\ pc' = "idle"
  /\ UNCHANGED <<store, kvVars>>

\* day-guard: kv.get(sitemap_current)
GuardCurrent ==
  /\ pc = "guardCurrent"
  /\ \E ok \in BOOLEAN :
       IF ok
       THEN /\ res' = [res EXCEPT !.currentContent = store.cur[UrlHash[res.url]]]
            /\ pc' = "guardLatest"
       ELSE /\ res' = Throw(res, "guardCurrent", <<"kv get">>)
            /\ pc' = "idle"
  /\ UNCHANGED <<store, kvVars>>

\* day-guard: kv.get(sitemap_latest), then the answer of the skipped check
GuardLatest ==
  /\ pc = "guardLatest"
  /\ \E ok \in BOOLEAN :
       IF ok
       THEN res' = Return(res, SkipResult(res.currentContent, store.latest[UrlHash[res.url]]))
       ELSE res' = Throw(res, "guardLatest", <<"kv get">>)
  /\ pc' = "idle"
  /\ UNCHANGED <<store, kvVars>>

\* fetch(url), the status test and the reading of the body
Fetch ==
  /\ pc = "fetch"
  /\ \E fetched \in Fetches(res.url) :
       IF fetched.kind = "ok"
       THEN /\ res' = [res EXCEPT !.newContent = fetched.body, !.stamp = store.downloads + 1]
            /\ store' = [store EXCEPT !.downloads = @ + 1]
            /\ pc' = "current"
       ELSE /\ res' = Throw(res, "fetch", FetchError(fetched))
            /\ pc' = "idle"
            /\ UNCHANGED store
  /\ UNCHANGED kvVars

\* kv.get(sitemap_current) and if (currentContent)
GetCurrent ==
  /\ pc = "current"
  /\ \E ok \in BOOLEAN :
       IF ok
       THEN LET currentContent == store.cur[UrlHash[res.url]]
            IN /\ res' = [res EXCEPT !.currentContent = currentContent,
                                     !.currentAt = store.curAt[UrlHash[res.url]]]
               /\ pc' = IF currentContent # NoContent THEN "putLatest" ELSE "putCurrent"
       ELSE /\ res' = Throw(res, "current", <<"kv get">>)
            /\ pc' = "idle"
  /\ UNCHANGED <<store, kvVars>>

\* kv.put(sitemap_latest, currentContent)
PutLatest ==
  /\ pc = "putLatest"
  /\ \E ok \in BOOLEAN :
       IF ok
       THEN /\ store' = [store EXCEPT !.latest[UrlHash[res.url]] = LatestValue(res).content,
                                      !.latestAt[UrlHash[res.url]] = LatestValue(res).at]
            /\ pc' = AfterPut("putLatest")
            /\ res' = [res EXCEPT !.written = @ \cup {"latest"}]
       ELSE /\ res' = Throw(res, "putLatest", <<"kv put">>)
            /\ pc' = "idle"
            /\ UNCHANGED store
  /\ UNCHANGED kvVars

\* kv.put(sitemap_current, newContent)
PutCurrent ==
  /\ pc = "putCurrent"
  /\ \E ok \in BOOLEAN :
       IF ok
       THEN /\ store' = [store EXCEPT !.cur[UrlHash[res.url]] = res.newContent,
                                      !.curAt[UrlHash[res.url]] = res.stamp]
            /\ pc' = AfterPut("putCurrent")
            /\ res' = [res EXCEPT !.written = @ \cup {"current"}]
       ELSE /\ res' = Throw(res, "putCurrent", <<"kv put">>)
            /\ pc' = "idle"
            /\ UNCHANGED store
  /\ UNCHANGED kvVars

\* kv.put(sitemap_dated_hash_today, newContent)
PutDated ==
  /\ pc = "putDated"
  /\ \E ok \in BOOLEAN :
       IF ok
       THEN /\ store' = [store EXCEPT !.dated[<<UrlHash[res.url], res.today>>] = res.newContent]
            /\ pc' = AfterPut("putDated")
            /\ res' = [res EXCEPT !.written = @ \cup {"dated"}]
       ELSE /\ res' = Throw(res, "putDated", <<"kv put">>)
            /\ pc' = "idle"
            /\ UNCHANGED store
  /\ UNCHANGED kvVars

\* kv.put(last_update, today), then the answer of the stored check
PutLastUpdate ==
  /\ pc = "putLastUpdate"
  /\ \E ok \in BOOLEAN :
       IF ok
       THEN /\ store' = [store EXCEPT !.last[UrlHash[res.url]] = res.today]
            /\ res' = Return([res EXCEPT !.written = @ \cup {"last_update"}],
                              Result(TRUE, "", TRUE,
                                     NewUrlsOf(res.newContent, res.currentContent)))
       ELSE /\ res' = Throw(res, "putLastUpdate", <<"kv put">>)
            /\ UNCHANGED store
  /\ pc' = "idle"
  /\ UNCHANGED kvVars

\* POST /debug/reset is called for url
ResetCall(url) ==
  /\ pc = "idle"
  /\ url = res.url
  /\ res' = Frame("reset", url, FALSE, store.today)
  /\ pc' = "deleteCurrent"
  /\ UNCHANGED <<store, kvVars>>

\* one turn of the loop over the keys: kv.delete(key); a rejection ends the
\* handler in its own catch
ResetDelete ==
  /\ pc \in {"deleteCurrent", "deleteLatest", "deleteLastUpdate"}
  /\ \E ok \in BOOLEAN :
       IF ok
       THEN /\ store' = CASE pc = "deleteCurrent" ->
                               [store EXCEPT !.cur[UrlHash[res.url]] = NoContent,
                                             !.curAt[UrlHash[res.url]] = 0]
                          [] pc = "deleteLatest" ->
                               [store EXCEPT !.latest[UrlHash[res.url]] = NoContent,
                                             !.latestAt[UrlHash[res.url]] = 0]
                          [] pc = "deleteLastUpdate" ->
                               [store EXCEPT !.last[UrlHash[res.url]] = NoDate]
            /\ pc' = CASE pc = "deleteCurrent" -> "deleteLatest"
                       [] pc = "deleteLatest" -> "deleteLastUpdate"
                       [] pc = "deleteLastUpdate" -> "idle"
            /\ res' = IF pc = "deleteLastUpdate" THEN Return(res, NoResult) ELSE res
       ELSE /\ res' = [Ended(res) EXCEPT !.thrown = pc, !.error = <<"kv delete">>]
            /\ pc' = "idle"
            /\ UNCHANGED store
  /\ UNCHANGED kvVars

\* midnight passes, also while an operation is under way
KvNextDay ==
  /\ store.today < MaxDay
  /\ store' = [store EXCEPT !.today = @ + 1]
  /\ UNCHANGED <<res, pc, kvVars>>

KvNext ==
  \/ \E url \in KvUrls, forceUpdate \in BOOLEAN : Call(url, forceUpdate)
  \/ GetLastUpdate
  \/ GuardCurrent
  \/ GuardLatest
  \/ Fetch
  \/ GetCurrent
  \/ PutLatest
  \/ PutCurrent
  \/ PutDated
  \/ PutLastUpdate
  \/ \E url \in KvUrls : ResetCall(url)
  \/ ResetDelete
  \/ KvNextDay

KvSpec == KvInit /\ [][KvNext]_vars

(***************************************************************************)
(* An index I of two children A and C: addFeed and                         *)
(* reprocessSitemapIndexes over the three URLs, up to MaxCalls calls.  The  *)
(* operation records the state of the web it met, as far as it can tell    *)
(* states of the web apart.                                                *)
(***************************************************************************)
MaxCalls == 3

IndexUrls == {UrlA, UrlC, UrlI}

IndexHashes == {UrlHash[u] : u \in IndexUrls}

\* the empty store, with the number of calls made
IndexStore(day) ==
  [calls |-> 0] @@
  [EmptyStore(day) EXCEPT !.cur = [h \in IndexHashes |-> NoContent],
                          !.latest = [h \in IndexHashes |-> NoContent],
                          !.dated = [k \in IndexHashes \X Days |-> NoContent],
                          !.last = [h \in IndexHashes |-> NoDate]]

Calling(st) == [ClearLog(st) EXCEPT !.calls = @ + 1]

IndexResponses(url) ==
  IF url = UrlI THEN {HttpError} \cup {Ok(d) : d \in IndexDocuments}
  ELSE {HttpError} \cup {Ok(d) : d \in UrlSets}

\* the states of the web that differ at the URLs of the set looked
IndexWorlds(looked) ==
  {(UrlA :> a) @@ (UrlC :> c) @@ (UrlI :> i) :
     a \in IF UrlA \in looked THEN IndexResponses(UrlA) ELSE {HttpError},
     c \in IF UrlC \in looked THEN IndexResponses(UrlC) ELSE {HttpError},
     i \in IF UrlI \in looked THEN IndexResponses(UrlI) ELSE {HttpError}}

\* the URLs a check of url can fetch
IndexReach(url) == IF url = UrlI THEN IndexUrls ELSE {url}

\* the URLs a check of url can send a GET to
IndexFetchable(st, url, forceUpdate) ==
  {u \in IndexReach(url) : ~DayGuard(u = url /\ forceUpdate, st.last[UrlHash[u]], st.today)}

\* the states of the web that a check of url can tell apart: the children
\* are fetched only below an index that lists them
IndexWorldsFor(st, url, forceUpdate) ==
  {w \in IndexWorlds(IndexFetchable(st, url, forceUpdate)) :
     (url = UrlI /\ (~w[UrlI].ok \/ Scan(w[UrlI].body).sitemaps = <<>>)) =>
       (w[UrlA] = HttpError /\ w[UrlC] = HttpError)}

\* the feeds whose stored current is an index
StoredIndexes(st) ==
  {u \in Range(getFeeds(st)) : Scan(getSitemapContent(st, u, "current")).rootTag = "sitemapindex"}

\* reprocessSitemapIndexes: the loop over the list read at the start, from
\* feed i on; acc carries the store and the totals
RECURSIVE ReprocessFeeds(_, _, _, _)
ReprocessFeeds(acc, feeds, i, w) ==
  IF i > Len(feeds) THEN acc
  ELSE LET content == getSitemapContent(acc.st, feeds[i], "current")
       IN IF content = NoContent \/ Scan(content).rootTag # "sitemapindex"
          THEN ReprocessFeeds(acc, feeds, i + 1, w)
          ELSE LET d == processSitemapIndex(acc.st, feeds[i], content, w)
               IN ReprocessFeeds(
                    [st |-> d.st,
                     totalIndexes |-> acc.totalIndexes + 1,
                     totalSubSitemaps |-> acc.totalSubSitemaps + d.r.subSitemaps,
                     totalNewFeeds |-> acc.totalNewFeeds + d.r.newFeedsAdded],
                    feeds, i + 1, w)

reprocessSitemapIndexes(st, w) ==
  LET acc == ReprocessFeeds([st |-> st, totalIndexes |-> 0, totalSubSitemaps |-> 0,
                             totalNewFeeds |-> 0], getFeeds(st), 1, w)
  IN [st |-> acc.st,
      r |-> [success |-> TRUE, totalIndexes |-> acc.totalIndexes,
             totalSubSitemaps |-> acc.totalSubSitemaps, totalNewFeeds |-> acc.totalNewFeeds]]

Met(name, url, forceUpdate, w, result) ==
  [op |-> name, url |-> url, forceUpdate |-> forceUpdate, w |-> w, r |-> result]

IndexInit ==
  /\ store = IndexStore(1)
  /\ res = Met("init", UrlI, FALSE, CHOOSE w \in IndexWorlds({}) : TRUE, NoResult)
  /\ pc = "idle"
  /\ feedsRead = <<>>
  /\ idx = 0
  /\ sitemapChanges = <<>>
  /\ checked = <<>>
  /\ notified = {}
  /\ calledToday = [u \in URLs |-> "no"]

\* /rss add URL calls addFeed(url); /news calls addFeed(url, true) for the
\* monitored feeds
IndexAddFeed(url, forceUpdate) ==
  /\ store.calls < MaxCalls
  /\ forceUpdate => url \in Range(getFeeds(store))
  /\ \E w \in IndexWorldsFor(store, url, forceUpdate) :
       \E d \in {addFeed(Calling(store), url, forceUpdate, w)} :
          /\ store' = d.st
          /\ res' = Met("addFeed", url, forceUpdate, w, d.r)
  /\ UNCHANGED <<pc, kvVars>>

\* /reprocess
Reprocess ==
  /\ store.calls < MaxCalls
  /\ \E w \in IndexWorlds(UNION {IndexFetchable(store, u, FALSE) \ {u} : u \in StoredIndexes(store)}) :
       \E d \in {reprocessSitemapIndexes(Calling(store), w)} :
          /\ store' = d.st
          /\ res' = Met("reprocessSitemapIndexes", UrlI, FALSE, w, d.r)
  /\ UNCHANGED <<pc, kvVars>>

IndexNextDay ==
  /\ store.today < MaxDay
  /\ store' = [ClearLog(store) EXCEPT !.today = @ + 1]
  /\ res' = Met("nextDay", UrlI, FALSE, CHOOSE w \in IndexWorlds({}) : TRUE, NoResult)
  /\ UNCHANGED <<pc, kvVars>>

IndexNext ==
  \/ \E url \in IndexUrls, forceUpdate \in BOOLEAN : IndexAddFeed(url, forceUpdate)
  \/ Reprocess
  \/ IndexNextDay

IndexSpec == IndexInit /\ [][IndexNext]_vars

(***************************************************************************)
(* generateUrlHash on its own: the keys of two URL strings of up to        *)
(* MaxUrlLen characters.                                                   *)
(***************************************************************************)
MaxUrlLen == 3

UrlChars == {"a", "A", "/"}

RECURSIVE UrlStrings(_)
UrlStrings(n) ==
  IF n = 0 THEN {<<>>}
  ELSE UrlStrings(n - 1) \cup {Append(cs, c) : cs \in UrlStrings(n - 1), c \in UrlChars}

Hashed(name, u, v, hashU, hashV) ==
  [op |-> name, u |-> u, v |-> v, hashU |-> hashU, hashV |-> hashV]

HashInit ==
  /\ store = EmptyStore(1)
  /\ \E u \in UrlStrings(MaxUrlLen), v \in UrlStrings(MaxUrlLen) :
       res = Hashed("init", u, v, <<>>, <<>>)
  /\ pc = "idle"
  /\ feedsRead = <<>>
  /\ idx = 0
  /\ sitemapChanges = <<>>
  /\ checked = <<>>
  /\ notified = {}
  /\ calledToday = [u \in URLs |-> "no"]

GenerateUrlHash ==
  /\ res.op = "init"
  /\ res' = Hashed("generateUrlHash", res.u, res.v, HashOfChars(res.u), HashOfChars(res.v))
  /\ UNCHANGED <<store, pc, kvVars>>

HashNext == GenerateUrlHash

HashSpec == HashInit /\ [][HashNext]_vars

\* ---------------------------------------------------------------------
\* ReportManager (report-manager.js): the persisted reports list and the
\* report_{id} / report_meta_{id} keys.  A report is its id and its
\* timestamp; the clock is monotone, so the k-th report created carries
\* timestamp k.  In ReportSpec `store` is the report store and `res` the
\* result of the last call.
\* ---------------------------------------------------------------------

MaxReports == 52
MaxFailures == 1

\* reports.splice(100): the size the list is cut to
ReportsKept == 100
\* getReportsList(limit = 50)
DefaultLimit == 50
ReportInfo(id) == [id |-> id, timestamp |-> id]

Take(s, n) == SubSeq(s, 1, IF Len(s) < n THEN Len(s) ELSE n)

NewestFirst(reports) ==
  \A i \in 1..(Len(reports) - 1) : reports[i].timestamp >= reports[i + 1].timestamp

\* stable insertion of one report into a list sorted newest first
RECURSIVE InsertNewest(_, _)
InsertNewest(report, sorted) ==
  IF sorted = <<>> THEN <<report>>
  ELSE IF Head(sorted).timestamp >= report.timestamp
       THEN <<Head(sorted)>> \o InsertNewest(report, Tail(sorted))
       ELSE <<report>> \o sorted

\* reports.sort((a, b) => new Date(b.timestamp) - new Date(a.timestamp))
RECURSIVE SortNewest(_)
SortNewest(reports) ==
  IF NewestFirst(reports) THEN reports
  ELSE InsertNewest(Head(reports), SortNewest(Tail(reports)))

ReportStore ==
  [reportsList |-> <<>>, reports |-> {}, metas |-> {}, created |-> 0, failures |-> 0]

getReportsList(st, limit) == Take(SortNewest(st.reportsList), limit)

\* deleteReport for each of the removed reports
RECURSIVE DeleteReports(_, _)
DeleteReports(st, removed) ==
  IF removed = <<>> THEN st
  ELSE DeleteReports([st EXCEPT !.reports = @ \ {Head(removed).id},
                                !.metas = @ \ {Head(removed).id}],
                     Tail(removed))

\* the list after reports.splice(100)
Spliced(reports) == Take(reports, ReportsKept)

\* reports.slice(100), taken after the splice
RemovedReports(reports) == SubSeq(Spliced(reports), ReportsKept + 1, Len(Spliced(reports)))

\* addToReportsList; fails names the key-value operation that throws
addToReportsList(st, reportInfo, fails) ==
  IF fails = "get list" THEN [st EXCEPT !.reportsList = <<reportInfo>>]
  ELSE LET reports == <<reportInfo>> \o getReportsList(st, DefaultLimit)
           cut == IF Len(reports) > ReportsKept THEN Spliced(reports) ELSE reports
           cleaned == IF Len(reports) > ReportsKept
                      THEN DeleteReports(st, RemovedReports(reports))
                      ELSE st
       IN IF fails = "put list" THEN cleaned
          ELSE [cleaned EXCEPT !.reportsList = cut]

KvFailures == {"put report", "put meta", "get list", "put list"}

\* generateReport: the store it leaves
generateReport(st, fails) ==
  LET reportId == st.created + 1
      counted == [st EXCEPT !.created = reportId,
                            !.failures = IF fails = "none" THEN @ ELSE @ + 1]
  IN IF fails = "put report" THEN counted
     ELSE IF fails = "put meta" THEN [counted EXCEPT !.reports = @ \cup {reportId}]
     ELSE addToReportsList([counted EXCEPT !.reports = @ \cup {reportId},
                                           !.metas = @ \cup {reportId}],
                           ReportInfo(reportId), fails)

Reported(name, success, reportId) ==
  [op |-> name, success |-> success, reportId |-> reportId]

ReportInit ==
  /\ store = ReportStore
  /\ res = Reported("init", TRUE, 0)
  /\ pc = "idle"
  /\ feedsRead = <<>>
  /\ idx = 0
  /\ sitemapChanges = <<>>
  /\ checked = <<>>
  /\ notified = {}
  /\ calledToday = [u \in URLs |-> "no"]

GenerateReport(fails) ==
  /\ store.created < MaxReports
  /\ fails # "none" => store.failures < MaxFailures
  /\ store' = generateReport(store, fails)
  /\ res' = Reported("generateReport", fails \notin {"put report", "put meta"},
                     store.created + 1)
  /\ UNCHANGED <<pc, kvVars>>

ReportNext == \E fails \in {"none"} \cup KvFailures : GenerateReport(fails)

ReportSpec == ReportInit /\ [][ReportNext]_vars

\* ---------------------------------------------------------------------
\* Feeds whose addresses differ in letter case or in a trailing slash:
\* addFeed over A, C, "C/" and the upper-case C, each serving its own
\* document.
\* ---------------------------------------------------------------------

IsoUrls == {UrlA, UrlC, UrlCSlash, UrlCUpper}

IsoHashes == {UrlHash[u] : u \in IsoUrls}

IsoStore(day) ==
  [calls |-> 0] @@
  [EmptyStore(day) EXCEPT !.cur = [h \in IsoHashes |-> NoContent],
                          !.latest = [h \in IsoHashes |-> NoContent],
                          !.dated = [k \in IsoHashes \X Days |-> NoContent],
                          !.last = [h \in IsoHashes |-> NoDate]]

\* the states of the web that a check of url can tell apart
IsoWorlds(url) ==
  {[u \in IsoUrls |-> IF u = url THEN response ELSE HttpError] :
     response \in {HttpError} \cup {Ok(d) : d \in UrlSets}}

IsoInit ==
  /\ store = IsoStore(1)
  /\ res = Met("init", UrlC, FALSE, CHOOSE w \in IsoWorlds(UrlC) : ~w[UrlC].ok, NoResult)
  /\ pc = "idle"
  /\ feedsRead = <<>>
  /\ idx = 0
  /\ sitemapChanges = <<>>
  /\ checked = <<>>
  /\ notified = {}
  /\ calledToday = [u \in URLs |-> "no"]

\* /rss add URL calls addFeed(url), the pass calls addFeed(url) for the
\* monitored feeds, /news calls addFeed(url, true) for them
IsoAddFeed(url, forceUpdate) ==
  /\ store.calls < MaxCalls
  /\ forceUpdate => url \in Range(getFeeds(store))
  /\ \E w \in IsoWorlds(url) :
       \E d \in {addFeed(Calling(store), url, forceUpdate, w)} :
          /\ store' = d.st
          /\ res' = Met("addFeed", url, forceUpdate, w, d.r)
  /\ UNCHANGED <<pc, kvVars>>

IsoNextDay ==
  /\ store.today < MaxDay
  /\ store' = [ClearLog(store) EXCEPT !.today = @ + 1]
  /\ res' = Met("nextDay", UrlC, FALSE, CHOOSE w \in IsoWorlds(UrlC) : ~w[UrlC].ok, NoResult)
  /\ UNCHANGED <<pc, kvVars>>

IsoNext ==
  \/ \E url \in IsoUrls, forceUpdate \in BOOLEAN : IsoAddFeed(url, forceUpdate)
  \/ IsoNextDay

IsoSpec == IsoInit /\ [][IsoNext]_vars

\* ---------------------------------------------------------------------
\* The expansion of an index one awaited call at a time: addFeed(url),
\* its downloadSitemap and the nested downloadSitemap calls of
\* processSitemapIndex, as a stack of frames in res.stack.  The web is
\* fixed for the whole behaviour (res.w): an index may list itself, and
\* two indexes may list each other.
\* ---------------------------------------------------------------------

\* the number of innermost frames kept: a call nested deeper drops the
\* outermost frame, which resumes only after every call above it returned
MaxDepth == 5

\* the webhook commands that complete during one call
MaxHooks == 1

NestResponses(url) ==
  IF url = UrlI
  THEN {HttpError, Ok(SitemapIndex(<<UrlI>>)), Ok(SitemapIndex(<<UrlA>>)),
        Ok(SitemapIndex(<<UrlA, UrlC>>))}
  ELSE IF url = UrlA
  THEN {HttpError, Ok(UrlSet(<<Page1>>)), Ok(SitemapIndex(<<UrlI>>)),
        Ok(SitemapIndex(<<UrlC>>))}
  ELSE {HttpError, Ok(UrlSet(<<Page1>>))}

NestWorlds ==
  {(UrlA :> a) @@ (UrlC :> c) @@ (UrlI :> i) :
     a \in NestResponses(UrlA), c \in NestResponses(UrlC), i \in NestResponses(UrlI)}

NestFrame(fn, url, phase) ==
  [fn |-> fn, url |-> url, phase |-> phase, feeds |-> <<>>, subSitemaps |-> <<>>, i |-> 0,
   newFeedsAdded |-> 0, totalNewUrls |-> <<>>, successCount |-> 0, errorCount |-> 0]

\* a call addFeed(url) under way: before is the persisted list at the call,
\* readFailed tells that a get of rss_feeds failed in it, hooks are the
\* webhook commands completed while an index expansion of it was suspended
Nest(name, w, url, st, failures) ==
  [op |-> name, w |-> w, url |-> url,
   stack |-> <<NestFrame("addFeed", url, "getFeeds")>>, r |-> NoResult, done |-> FALSE,
   before |-> getFeeds(st), readFailed |-> FALSE, hooks |-> <<>>, failures |-> failures]

Top(stack) == stack[Len(stack)]

Pop(stack) == SubSeq(stack, 1, Len(stack) - 1)

SetTop(stack, frame) == [stack EXCEPT ![Len(stack)] = frame]

Push(stack, frame) ==
  IF Len(stack) < MaxDepth THEN Append(stack, frame) ELSE Append(Tail(stack), frame)

\* the accumulator of the loop of processSitemapIndex held by a frame
AccOf(frame, st) ==
  [st |-> st, feeds |-> frame.feeds, newFeedsAdded |-> frame.newFeedsAdded,
   totalNewUrls |-> frame.totalNewUrls, successCount |-> frame.successCount,
   errorCount |-> frame.errorCount]

\* the frame of the loop after the download d of its child i returned
Counted(frame, d) ==
  LET absoluteUrl == AbsoluteUrl(frame.subSitemaps[frame.i], frame.url)
      acc == CountSubSitemap(AccOf(frame, d.st), absoluteUrl,
                             absoluteUrl \notin Range(frame.feeds), d)
  IN [frame EXCEPT !.phase = "loop", !.i = @ + 1, !.feeds = acc.feeds,
                   !.newFeedsAdded = acc.newFeedsAdded,
                   !.totalNewUrls = acc.totalNewUrls,
                   !.successCount = acc.successCount,
                   !.errorCount = acc.errorCount]

\* the top frame returns d to its caller: the loop of an index counts it,
\* addFeed appends the feed and returns
Returned(stack, d) ==
  LET callers == Pop(stack)
      caller == Top(callers)
  IN IF caller.fn = "addFeed"
     THEN LET a == AfterDownload(caller.feeds, caller.url, FALSE, d)
          IN [st |-> a.st, stack |-> <<>>, r |-> a.r, done |-> TRUE]
     ELSE [st |-> d.st, stack |-> SetTop(callers, Counted(caller, d)), r |-> NoResult,
           done |-> FALSE]

\* downloadSitemap(url) up to its return or to its call of
\* processSitemapIndex
DownloadStep(st, frame, w) ==
  LET urlHash == UrlHash[frame.url]
      response == w[frame.url]
  IN IF DayGuard(FALSE, st.last[urlHash], st.today)
     THEN [returns |-> TRUE, st |-> st, r |-> SkipResult(st.cur[urlHash], st.latest[urlHash])]
     ELSE IF ~response.ok THEN [returns |-> TRUE, st |-> st, r |-> ErrorResult]
     ELSE IF Scan(response.body).rootTag = "sitemapindex"
          THEN IF Len(Scan(response.body).sitemaps) = 0
               THEN [returns |-> TRUE, st |-> st,
                     r |-> Result(FALSE, "no sub sitemap", FALSE, <<>>)]
               ELSE [returns |-> FALSE, st |-> st, r |-> NoResult]
     ELSE [returns |-> TRUE, st |-> SaveSitemap(st, urlHash, response.body),
           r |-> Result(TRUE, "", TRUE, NewUrlsOf(response.body, st.cur[urlHash]))]

NestInit ==
  /\ store = Calling(IndexStore(1))
  /\ \E w \in NestWorlds, url \in IndexUrls : res = Nest("addFeed", w, url, store, 0)
  /\ pc = "idle"
  /\ feedsRead = <<>>
  /\ idx = 0
  /\ sitemapChanges = <<>>
  /\ checked = <<>>
  /\ notified = {}
  /\ calledToday = [u \in URLs |-> "no"]

\* getFeeds: the list, or [] when the get of rss_feeds fails
FeedsRead(st, fails) == IF fails THEN <<>> ELSE getFeeds(st)

\* the next command addFeed(url), after the last one returned
NestAddFeed(url) ==
  /\ res.done
  /\ store.calls < MaxCalls
  /\ store' = Calling(store)
  /\ res' = Nest("addFeed", res.w, url, store, res.failures)
  /\ UNCHANGED <<pc, kvVars>>

\* const feeds = await this.getFeeds(), in addFeed and in processSitemapIndex
NestGetFeeds(fails) ==
  /\ res.stack # <<>>
  /\ Top(res.stack).phase = "getFeeds"
  /\ fails => res.failures < MaxFailures
  /\ res' = [res EXCEPT !.op = "getFeeds",
                        !.readFailed = @ \/ fails,
                        !.failures = IF fails THEN @ + 1 ELSE @,
                        !.stack = SetTop(@, [Top(@) EXCEPT
                                    !.feeds = FeedsRead(store, fails),
                                    !.phase = IF Top(res.stack).fn = "addFeed"
                                              THEN "call" ELSE "loop",
                                    !.i = 1])]
  /\ UNCHANGED <<store, pc, kvVars>>

\* the call downloadSitemap(url) of addFeed, or downloadSitemap(absoluteUrl)
\* of the loop for its child i
NestCall ==
  /\ res.stack # <<>>
  /\ LET frame == Top(res.stack)
     IN \/ /\ frame.phase = "call"
           /\ res' = [res EXCEPT !.op = "call",
                                 !.stack = Push(SetTop(@, [frame EXCEPT !.phase = "await"]),
                                             NestFrame("downloadSitemap", frame.url, "download"))]
        \/ /\ frame.phase = "loop"
           /\ frame.i <= Len(frame.subSitemaps)
           /\ res' = [res EXCEPT !.op = "call",
                                 !.stack = Push(SetTop(@, [frame EXCEPT !.phase = "await"]),
                                             NestFrame("downloadSitemap",
                                                       AbsoluteUrl(frame.subSitemaps[frame.i], frame.url),
                                                       "download"))]
  /\ UNCHANGED <<store, pc, kvVars>>

\* downloadSitemap runs to its return, or enters processSitemapIndex
NestDownload ==
  /\ res.stack # <<>>
  /\ Top(res.stack).phase = "download"
  /\ \E d \in {DownloadStep(store, Top(res.stack), res.w)} :
       IF d.returns
       THEN \E back \in {Returned(res.stack, d)} :
              /\ store' = back.st
              /\ res' = [res EXCEPT !.op = "downloadSitemap", !.stack = back.stack,
                                    !.r = back.r, !.done = back.done]
       ELSE /\ store' = d.st
            /\ res' = [res EXCEPT !.op = "processSitemapIndex",
                                  !.stack = SetTop(@, [Top(@) EXCEPT
                                     !.phase = "getFeeds",
                                     !.subSitemaps = Scan(res.w[Top(res.stack).url].body).sitemaps])]
  /\ UNCHANGED <<pc, kvVars>>

\* the loop of processSitemapIndex is over: the list is written when a child
\* joined it, and the result returns to the caller
NestLoopEnd ==
  /\ res.stack # <<>>
  /\ Top(res.stack).phase = "loop"
  /\ Top(res.stack).i > Len(Top(res.stack).subSitemaps)
  /\ \E back \in {Returned(res.stack,
                           IndexResult(AccOf(Top(res.stack), store), Top(res.stack).subSitemaps))} :
       /\ store' = back.st
       /\ res' = [res EXCEPT !.op = "loopEnd", !.stack = back.stack, !.r = back.r,
                             !.done = back.done]
  /\ UNCHANGED <<pc, kvVars>>

\* an index expansion of the call has read the list and not yet returned
Expanding(stack) ==
  \E k \in 1..Len(stack) :
     stack[k].fn = "downloadSitemap" /\ stack[k].phase \in {"loop", "await"}

Hook(kind, url, success) == [kind |-> kind, url |-> url, success |-> success]

\* a webhook command /rss add of a sitemap completes while the expansion is
\* suspended
HookAddFeed(url) ==
  /\ Expanding(res.stack)
  /\ Len(res.hooks) < MaxHooks
  /\ \E d \in {addFeed(store, url, FALSE, res.w)} :
       /\ store' = d.st
       /\ res' = [res EXCEPT !.op = "hook",
                             !.hooks = Append(@, Hook("addFeed", url, d.r.success))]
  /\ UNCHANGED <<pc, kvVars>>

\* a webhook command /rss del completes while the expansion is suspended
HookRemoveFeed(url) ==
  /\ Expanding(res.stack)
  /\ Len(res.hooks) < MaxHooks
  /\ \E d \in {removeFeed(store, url)} :
       /\ store' = d.st
       /\ res' = [res EXCEPT !.op = "hook",
                             !.hooks = Append(@, Hook("removeFeed", url, d.r.success))]
  /\ UNCHANGED <<pc, kvVars>>

NestNext ==
  \/ \E url \in IndexUrls : NestAddFeed(url)
  \/ \E fails \in BOOLEAN : NestGetFeeds(fails)
  \/ NestCall
  \/ NestDownload
  \/ NestLoopEnd
  \/ HookAddFeed(UrlC)
  \/ \E url \in Range(getFeeds(store)) : HookRemoveFeed(url)

NestSpec == NestInit /\ [][NestNext]_vars

\* one call addFeed(url) on its own, every read of the list answering
ExpandNext ==
  \/ NestGetFeeds(FALSE)
  \/ NestCall
  \/ NestDownload
  \/ NestLoopEnd

\* an awaited call is resumed when it settles
ExpandFairSpec == NestInit /\ [][ExpandNext]_vars /\ WF_vars(ExpandNext)

(***************************************************************************)
(* Properties.  res' describes the operation of the step, store the keys   *)
(* before it and store' the keys after it.                                 *)
(***************************************************************************)
Current(st, url) == getSitemapContent(st, url, "current")

Previous(st, url) == getSitemapContent(st, url, "latest")

LastCheckedDate(st, url) == st.last[UrlHash[url]]

Monitored(st) == Range(getFeeds(st))

\* the operations that run one download+save cycle of res.url
CycleOps == {"addFeed", "downloadSitemap", "passFeed"}

\* the operations that are a call addFeed(url)
AddFeedOps == {"addFeed", "passFeed"}

\* the operation's own GET of its url answered a document
Downloaded(o) == o.op \in CycleOps /\ o.body # NoContent

IsIndexBody(body) == body # NoContent /\ Scan(body).rootTag = "sitemapindex"

IsUrlsetBody(body) == body # NoContent /\ Scan(body).rootTag # "sitemapindex"

\* the pages a urlset of the model lists, by construction of the document
PagesOf ==
  (UrlSet(<<Page1>>) :> <<Page1>>) @@ (UrlSet(<<Page1, Page2>>) :> <<Page1, Page2>>)

\* the pages of the document new that the document old does not list
PagesAdded(new, old) == SelectSeq(PagesOf[new], LAMBDA page : page \notin Range(PagesOf[old]))

\* the absolute child URLs of an index document fetched from url
ChildrenOf(body, url) == {AbsoluteUrl(sub, url) : sub \in Range(Scan(body).sitemaps)}

\* C1 (as claimed): after a download+save cycle of url that fetched a document
\* and returned success, the stored current of url is the fetched body and the
\* stored previous is what current held before the call, whatever kind of
\* document was fetched.
C1_RoundTripAnyDocument ==
  [][(Downloaded(res') /\ res'.r.success) =>
       /\ Current(store', res'.url) = res'.body
       /\ Previous(store', res'.url) = Current(store, res'.url)]_vars

\* C2: a cycle that fetched a urlset body N returns success with newUrls = <<>>
\* when url had no stored current, and otherwise with exactly the URLs of N
\* that the stored current does not list.
C2_NewUrlsOfCheck ==
  [][(Downloaded(res') /\ IsUrlsetBody(res'.body)) =>
       /\ res'.r.success
       /\ res'.r.newUrls = IF Current(store, res'.url) = NoContent THEN <<>>
                           ELSE PagesAdded(res'.body, Current(store, res'.url))]_vars

\* C2 witness: the day after a first check, the fetched urlset is the stored
\* one plus one appended page, and exactly that page was returned.
C2_Witness ==
  /\ Downloaded(res)
  /\ res.body = UrlSet(<<Page1, Page2>>)
  /\ Previous(store, res.url) = UrlSet(<<Page1>>)
  /\ res.r.newUrls = <<Page2>>
  /\ store.dated[<<UrlHash[res.url], 1>>] = UrlSet(<<Page1>>)
  /\ store.today = 2

\* C3 (as claimed): a call addFeed(url) without forceUpdate, made on a day on
\* which addFeed(url) was already called without forceUpdate, leaves current
\* and previous of url as they were, whatever the outcome of the earlier call.
C3_SecondCallAnyOutcome ==
  [][(res'.op \in AddFeedOps /\ ~res'.forceUpdate /\ calledToday[res'.url] # "no") =>
       /\ Current(store', res'.url) = Current(store, res'.url)
       /\ Previous(store', res'.url) = Previous(store, res'.url)]_vars

\* C3 (amended): a call addFeed(url) without forceUpdate, made on a day on
\* which an earlier call addFeed(url) without forceUpdate returned success
\* without expanding an index, leaves current and previous of url as they were.
C3_SecondCallAfterSuccess ==
  [][(res'.op \in AddFeedOps /\ ~res'.forceUpdate /\ calledToday[res'.url] = "ok") =>
       /\ Current(store', res'.url) = Current(store, res'.url)
       /\ Previous(store', res'.url) = Previous(store, res'.url)]_vars

\* C3 witness: a second call of the day was stopped by the day-guard and
\* returned the diff of the snapshots the first call left.
C3_Witness ==
  /\ res.op \in AddFeedOps /\ ~res.forceUpdate
  /\ calledToday[res.url] = "ok"
  /\ res.url \in store.guarded
  /\ res.url \notin store.fetched
  /\ res.r.newUrls = <<Page2>>
  /\ Current(store, res.url) = UrlSet(<<Page1, Page2>>)

\* C4 (as claimed): a pass never records, and hands to the notifier, a new
\* page URL that a pass of the same day has recorded before.
C4_NotifiedOncePerDay ==
  [][(res'.op = "passFeed" /\ RecordsChange(res'.r)) =>
       \A page \in Range(res'.r.newUrls) : page \notin notified]_vars

\* C5 (as claimed): after a successful operation that expanded the index
\* document fetched from its url, addFeed(indexUrl) of a new indexUrl included,
\* every absolute child URL of the index is in the persisted monitored list.
C5_IndexChildrenMonitored ==
  (res.op \in CycleOps /\ res.r.success /\ IsIndexBody(res.body)) =>
    ChildrenOf(res.body, res.url) \subseteq Monitored(store)

\* C6 (as claimed): every URL that an operation other than removeFeed wrote
\* into the persisted monitored list is in the list when the operation ends.
C6_WrittenEntriesStay ==
  res.op # "removeFeed" => store.listed \subseteq Monitored(store)

\* C7: in a pass, addFeed is called for the feeds of the list read at the
\* start, one after the other in list order, whatever the earlier checks
\* returned or raised; so at the end it was called for every one of them.
C7_EveryFeedChecked ==
  pc = "loop" =>
    /\ idx = Len(checked) + 1
    /\ idx <= Len(feedsRead) + 1
    /\ \A k \in 1..Len(checked) : checked[k].url = feedsRead[k]

\* C7 witness: the loop is over, the check of the first feed failed and the
\* second feed was checked all the same.
C7_Witness ==
  /\ pc = "loop" /\ idx > Len(feedsRead)
  /\ Len(feedsRead) = 2
  /\ ~checked[1].r.success
  /\ checked[2].r.success

\* the change entries due for the checks made so far
RECURSIVE ChangesDue(_)
ChangesDue(checks) ==
  IF checks = <<>> THEN <<>>
  ELSE (IF Head(checks).r.success /\ Head(checks).r.newUrls # <<>>
        THEN <<[url |-> Head(checks).url, newUrls |-> Head(checks).r.newUrls]>>
        ELSE <<>>) \o ChangesDue(Tail(checks))

C9_ForceUpdateFetches ==
  [][(res'.op \in CycleOps /\ res'.forceUpdate) =>
       /\ res'.url \in store'.fetched
       /\ IsUrlsetBody(res'.body) =>
            /\ Current(store', res'.url) = res'.body
            /\ Current(store, res'.url) # NoContent =>
                 Previous(store', res'.url) = Current(store, res'.url)]_vars

\* C9 witness: on the first day, a forced call replaced a current that had
\* been stored the same day.
C9_Witness ==
  /\ res.op = "addFeed" /\ res.forceUpdate
  /\ store.today = 1
  /\ res.url \in store.fetched
  /\ Current(store, res.url) = UrlSet(<<Page1, Page2>>)
  /\ Previous(store, res.url) = UrlSet(<<Page1>>)

\* C10: addFeed(url) of a url that is not monitored leaves the persisted list
\* as it was when the cycle fails, and makes it the old list with url
\* appended when the cycle succeeds.
C10_AppendsAfterSuccess ==
  [][(res'.op = "addFeed" /\ res'.url \notin Monitored(store)) =>
       getFeeds(store') = IF res'.r.success THEN Append(getFeeds(store), res'.url)
                          ELSE getFeeds(store)]_vars

\* C10 witness: the cycle of a new url failed and the non-empty list does not
\* hold it.
C10_Witness ==
  /\ res.op = "addFeed"
  /\ ~res.r.success
  /\ res.url \in store.fetched
  /\ getFeeds(store) # <<>>
  /\ res.url \notin Monitored(store)

\* no element of the list occurs twice
NoDuplicates(feeds) == \A i, j \in 1..Len(feeds) : feeds[i] = feeds[j] => i = j

\* C11: the persisted monitored list never holds the same URL string twice,
\* whatever addFeed, the expansion of an index and removeFeed did.
C11_NoDuplicateFeeds == NoDuplicates(getFeeds(store))

\* C11 witness: an index that lists the already monitored child twice, once by
\* its absolute and once by its relative address, was expanded without adding
\* a feed, and the list holds the index and the child once each.
C11_Witness ==
  /\ res.op \in CycleOps /\ res.r.success
  /\ res.body = SitemapIndex(<<UrlC, RelC>>)
  /\ res.r.subSitemaps = 2
  /\ res.r.newFeedsAdded = 0
  /\ Len(getFeeds(store)) = 2

\* the keys of the store: the monitored list and the snapshots
\* C12: removeFeed(url) of a url that is not monitored returns success=false
\* with the not-found message and leaves the monitored list and every snapshot
\* key as they were.
C12_RemoveAbsentFeed ==
  [][(res'.op = "removeFeed" /\ res'.url \notin Monitored(store)) =>
       /\ ~res'.r.success
       /\ res'.r.errorMsg = "not found"
       /\ Keys(store') = Keys(store)
       /\ store'.listed = {}]_vars

\* C12 witness: removeFeed of the index, which is not monitored, failed while
\* the list holds the other feed and its snapshot is stored.
C12_Witness ==
  /\ res.op = "removeFeed" /\ res.url = UrlI
  /\ ~res.r.success
  /\ getFeeds(store) = <<UrlC>>
  /\ Current(store, UrlC) # NoContent

\* C13: removeFeed(url) of a monitored url returns success=true and the
\* persisted list is the list before the call without url, the other URLs in
\* their order.
C13_RemoveMonitoredFeed ==
  [][(res'.op = "removeFeed" /\ res'.url \in Monitored(store)) =>
       /\ res'.r.success
       /\ getFeeds(store') = SelectSeq(getFeeds(store), LAMBDA u : u # res'.url)]_vars

\* C13 witness: the middle one of three feeds was removed and the two others
\* are left in their order.
C13_Witness ==
  /\ res.op = "removeFeed" /\ res.url = UrlC
  /\ res.r.success
  /\ getFeeds(store) = <<UrlJ, UrlA>>

\* the list without every element that occurs in others, built left to right
RECURSIVE DeleteAll(_, _)
DeleteAll(urls, others) ==
  IF urls = <<>> THEN <<>>
  ELSE (IF \E m \in 1..Len(others) : others[m] = Head(urls) THEN <<>> ELSE <<Head(urls)>>)
       \o DeleteAll(Tail(urls), others)

\* C14: compareSitemaps(A, B) is the location list extracted from A with every
\* element deleted that occurs in the location list extracted from B; the
\* order of A is kept and so is every repetition in A of an element absent
\* from B.
C14_DiffDeletesOld ==
  res.op = "compareSitemaps" =>
    res.newUrls = DeleteAll(Scan(res.currentContent).urls, Scan(res.oldContent).urls)

C14_Witness ==
  /\ res.op = "compareSitemaps"
  /\ Scan(res.currentContent).urls = <<Page2, Page1, Page2>>
  /\ Scan(res.oldContent).urls = <<Page1>>
  /\ res.newUrls = <<Page2, Page2>>

\* C15: compareSitemaps(A, A) is the empty list, for every content A.
C15_DiffSelfEmpty ==
  (res.op = "compareSitemaps" /\ res.currentContent = res.oldContent) => res.newUrls = <<>>

C15_Witness ==
  /\ res.op = "compareSitemaps"
  /\ res.currentContent = UrlSet(<<Page1, Page2, Page1>>)
  /\ res.oldContent = res.currentContent
  /\ Scan(res.currentContent).urls = <<Page1, Page2, Page1>>
  /\ res.newUrls = <<>>

\* C16: in every state of the store, between the key writes of a check,
\* after forced checks, failed writes and resets included, the download that
\* produced the latest (previous) snapshot of a hash happened no later than
\* the download that produced its current snapshot.
C16_PreviousNotNewer ==
  \A h \in KvHashes :
    (store.latestAt[h] # 0 /\ store.curAt[h] # 0) => store.latestAt[h] <= store.curAt[h]

C16_Witness ==
  /\ pc = "putCurrent"
  /\ res.forceUpdate
  /\ res.today = 1
  /\ store.last[UrlHash[res.url]] = 1
  /\ store.latestAt[UrlHash[res.url]] = 2
  /\ store.curAt[UrlHash[res.url]] = 2
  /\ res.stamp = 3
  /\ store.latest[UrlHash[res.url]] # NoContent

\* C17: downloadSitemap never raises.  Whatever the fetch comes to (a status
\* outside 200-299, a transport error, a failed decompression) and whichever
\* kv.get or kv.put rejects, the call returns success = false with an error
\* message and no new URLs; for a status outside 200-299 the message carries
\* the status and the call has written no key.
C17_NeverRaises ==
  (res.op = "downloadSitemap" /\ res.done) =>
    /\ ~res.raised
    /\ res.thrown # "" =>
         /\ ~res.r.success
         /\ res.r.errorMsg = <<"download failed", res.error>>
         /\ res.r.newUrls = <<>>
    /\ \A status \in {404, 503} :
         (res.thrown = "fetch" /\ res.error = FetchError(Fetched("status", status, NoContent))) =>
           /\ res.r.errorMsg[2] = <<"HTTP", status>>
           /\ res.written = {}

C17_Witness ==
  /\ res.op = "downloadSitemap"
  /\ res.done
  /\ res.url = UrlZ
  /\ res.thrown = "fetch"
  /\ res.r = Result(FALSE, <<"download failed", <<"HTTP", 503>>>>, FALSE, <<>>)
  /\ res.written = {}
  /\ store.cur[UrlHash[UrlZ]] = UrlSet(<<Page1>>)
  /\ store.downloads = 1

\* C18 as the specification words it: a kv.get of downloadSitemap that
\* rejects is taken as a missing value, so that after a successful fetch the
\* check whose read of sitemap_current was rejected ends with success and
\* with the fetched content stored as current.
C18_ReadFailureIsAbsence ==
  (res.op = "downloadSitemap" /\ res.done /\ res.thrown = "current") =>
    /\ res.r.success
    /\ store.cur[UrlHash[res.url]] = res.newContent

\* C19 as the specification words it: an archive entry sitemap_dated of a
\* hash and a day, once written, keeps its value through every later
\* operation, forced and non-forced checks of the same day included.
C19_ArchiveImmutable ==
  [][\A k \in Hashes \X Days :
       store.dated[k] # NoContent => store'.dated[k] = store.dated[k]]_vars

\* C20 as the specification words it: whenever downloadSitemap(url) or
\* addFeed(url) returns success, last_update of url holds the day of the
\* call, whatever document was fetched.
C20_LastCheckedIsCallDay ==
  [][(res'.op \in CycleOps /\ res'.r.success) =>
       LastCheckedDate(store', res'.url) = store'.today]_vars

\* the four keys of the feed as the running check leaves them when it
\* completes
Completed(frame) ==
  <<IF frame.currentContent # NoContent THEN frame.currentContent ELSE frame.before[1],
    frame.newContent, frame.newContent, frame.today>>

\* C21 as the specification words it: wherever a check is cut off, the four
\* keys of its feed (latest, current, today's dated entry, last_update) are
\* all as they were when the check began or all as the completed check
\* leaves them.
C21_AllOrNothing ==
  (res.op = "downloadSitemap" /\ ~res.done) =>
    \/ Slots(store, res.url, res.today) = res.before
    \/ /\ pc \in {"putLatest", "putCurrent", "putDated", "putLastUpdate"}
       /\ Slots(store, res.url, res.today) = Completed(res)

\* if (result.isIndex): a property the object does not have reads as
\* undefined
Truthy(object, property) == property \in DOMAIN object /\ object[property] = TRUE

\* C22 as the specification words it: the result of a successful addFeed of a
\* url whose document is a sitemap index carries isIndex = true, so that the
\* caller's test of result.isIndex takes the index branch.
C22_IndexResultIsMarked ==
  [][(res'.op \in AddFeedOps /\ res'.r.success /\ IsIndexBody(res'.body)) =>
       Truthy(res'.r, "isIndex")]_vars

\* the operation was addFeed(I) and its GET of I answered an index from
\* which children were extracted
ExpandedIndex(o) ==
  /\ o.op = "addFeed"
  /\ o.url = UrlI
  /\ o.w[UrlI].ok
  /\ Scan(o.w[UrlI].body).rootTag = "sitemapindex"
  /\ Scan(o.w[UrlI].body).sitemaps # <<>>

\* the children of the index the operation met, as absolute URLs
ChildrenMet(o) ==
  LET subSitemaps == Scan(o.w[UrlI].body).sitemaps
  IN [i \in 1..Len(subSitemaps) |-> AbsoluteUrl(subSitemaps[i], o.url)]

\* the cycles of the children one after the other from the store st on: the
\* results, in child order
RECURSIVE ChildCycles(_, _, _)
ChildCycles(st, children, w) ==
  IF children = <<>> THEN <<>>
  ELSE LET d == downloadSitemap(st, Head(children), FALSE, w)
       IN <<d.r>> \o ChildCycles(d.st, Tail(children), w)

\* the new URLs of the cycles that succeeded, in the order of the cycles
RECURSIVE NewUrlsOfSucceeded(_)
NewUrlsOfSucceeded(results) ==
  IF results = <<>> THEN <<>>
  ELSE (IF Head(results).success THEN Head(results).newUrls ELSE <<>>)
       \o NewUrlsOfSucceeded(Tail(results))

\* C23: the newUrls that processSitemapIndex returns are the newUrls of the
\* cycles of its children that succeeded, one after the other in child
\* order; a child whose cycle failed adds nothing and the children after it
\* are still processed.
C23_IndexNewUrls ==
  [][ExpandedIndex(res') =>
       /\ res'.r.success
       /\ res'.r.newUrls = NewUrlsOfSucceeded(ChildCycles(store, ChildrenMet(res'), res'.w))]_vars

C23_Witness ==
  /\ ExpandedIndex(res)
  /\ ChildrenMet(res) = <<UrlA, UrlC>>
  /\ ~res.w[UrlA].ok
  /\ res.w[UrlC] = Ok(UrlSet(<<Page1, Page2>>))
  /\ res.r.newUrls = <<Page2>>
  /\ res.r.errorCount = 1
  /\ res.r.successCount = 1
  /\ store.cur[UrlHash[UrlC]] = UrlSet(<<Page1, Page2>>)

\* the same characters up to letter case
SameLetters(u, v) ==
  Len(u) = Len(v) /\ \A i \in 1..Len(u) : ToLowerChar(u[i]) = ToLowerChar(v[i])

EndsInSlash(u) == u # <<>> /\ u[Len(u)] = "/"

\* C24 as the specification words it: two URLs that differ only in letter
\* case and/or in one trailing slash have the same key.
C24_SameKeyForVariants ==
  (/\ res.op = "generateUrlHash"
   /\ \/ SameLetters(res.u, res.v)
      \/ SameLetters(res.u, res.v \o <<"/">>)
      \/ SameLetters(res.u \o <<"/">>, res.v)) =>
    res.hashU = res.hashV

\* C24, amended: two URLs have the same key when they differ only in letter
\* case and/or in one trailing slash that follows a character other than a
\* slash (or is the whole URL); the key is a function of the characters of
\* the URL.
C24_SameKeyForPathVariants ==
  (/\ res.op = "generateUrlHash"
   /\ \/ SameLetters(res.u, res.v)
      \/ (~EndsInSlash(res.v) /\ SameLetters(res.u, res.v \o <<"/">>))
      \/ (~EndsInSlash(res.u) /\ SameLetters(res.u \o <<"/">>, res.v))) =>
    res.hashU = res.hashV

C24_Witness ==
  /\ res.op = "generateUrlHash"
  /\ res.u = <<"a", "A", "/">>
  /\ res.v = <<"A", "a">>
  /\ res.hashU = res.hashV
  /\ res.hashU = HashOfChars(<<"a", "a">>)

\* the snapshot keys of the store: everything but rss_feeds
Snapshots(st) == <<st.cur, st.latest, st.dated, st.last>>

\* C25: a check of url without forceUpdate whose last_update is today makes
\* no GET and no write of a snapshot key, and returns success with the
\* difference of current against latest when both are present and with no
\* new URL otherwise.
C25_DayGuardSkip ==
  [][(/\ res'.op \in AddFeedOps
      /\ ~res'.forceUpdate
      /\ LastCheckedDate(store, res'.url) = store.today) =>
       /\ store'.fetched = {}
       /\ Snapshots(store') = Snapshots(store)
       /\ res'.r.success
       /\ res'.r.newUrls =
            IF Current(store, res'.url) # NoContent /\ Previous(store, res'.url) # NoContent
            THEN compareSitemaps(Current(store, res'.url), Previous(store, res'.url))
            ELSE <<>>]_vars

C25_Witness ==
  /\ res.op \in AddFeedOps
  /\ ~res.forceUpdate
  /\ res.url \in store.guarded
  /\ store.fetched = {}
  /\ res.r.success
  /\ Current(store, res.url) = UrlSet(<<Page1, Page2>>)
  /\ Previous(store, res.url) = UrlSet(<<Page1>>)
  /\ res.r.newUrls = <<Page2>>

\* the key that the step writes for the running check, if it writes one
Puts(key) == key \in res'.written \ res.written

\* C26: the puts of a check that stores a urlset come in the order latest
\* (the old current, only when a current existed), current (the new
\* content), dated of today (the new content), last_update (today);
\* last_update is not set to today before current holds the new content.
C26_WriteOrder ==
  [][(res.op = "downloadSitemap" /\ ~res.done) =>
       /\ Puts("latest") =>
            /\ res.written = {}
            /\ store.cur[UrlHash[res.url]] # NoContent
            /\ store'.latest[UrlHash[res.url]] = store.cur[UrlHash[res.url]]
       /\ Puts("current") =>
            /\ res.written = IF store.cur[UrlHash[res.url]] # NoContent THEN {"latest"} ELSE {}
            /\ store'.cur[UrlHash[res.url]] = res.newContent
       /\ Puts("dated") =>
            /\ res.written \ {"latest"} = {"current"}
            /\ store'.dated[<<UrlHash[res.url], res.today>>] = res.newContent
       /\ Puts("last_update") =>
            /\ res.written \ {"latest"} = {"current", "dated"}
            /\ store.cur[UrlHash[res.url]] = res.newContent
            /\ store'.last[UrlHash[res.url]] = res.today
       /\ (res'.done /\ res'.r.success /\ res'.r.datedFile) =>
            res'.written \ {"latest"} = {"current", "dated", "last_update"}]_vars

C26_Witness ==
  /\ res.op = "downloadSitemap"
  /\ res.done
  /\ res.r.success
  /\ res.written = {"latest", "current", "dated", "last_update"}
  /\ store.latest[UrlHash[res.url]] = UrlSet(<<Page1>>)
  /\ store.cur[UrlHash[res.url]] = UrlSet(<<Page1, Page2>>)
  /\ store.dated[<<UrlHash[res.url], store.today>>] = UrlSet(<<Page1, Page2>>)
  /\ store.last[UrlHash[res.url]] = store.today
  /\ res.r.newUrls = <<Page2>>

\* C27 as the specification words it: during addFeed(url, true) no cycle
\* that the call starts, the cycles of the children of an index included,
\* ends in the day-guard.
C27_ForceReachesChildren ==
  [][(res'.op \in AddFeedOps /\ res'.forceUpdate) => store'.guarded = {}]_vars

\* the operation was addFeed(I) and its GET of I answered an index from
\* which no child can be extracted
EmptyIndexMet(o) ==
  /\ o.op = "addFeed"
  /\ o.url = UrlI
  /\ o.w[UrlI].ok
  /\ Scan(o.w[UrlI].body).rootTag = "sitemapindex"
  /\ Scan(o.w[UrlI].body).sitemaps = <<>>

\* C28: on an index from which no child URL can be extracted,
\* processSitemapIndex returns success = false with no new URL and leaves the
\* monitored list and the snapshots as they were; addFeed of such a url does
\* not add it to the list.
C28_EmptyIndex ==
  [][EmptyIndexMet(res') =>
       /\ ~res'.r.success
       /\ res'.r.errorMsg = "no sub sitemap"
       /\ res'.r.newUrls = <<>>
       /\ Keys(store') = Keys(store)
       /\ store'.listed = {}]_vars

C28_Witness ==
  /\ EmptyIndexMet(res)
  /\ res.w[UrlI].body = NoLocIndex
  /\ ~res.r.success
  /\ getFeeds(store) = <<UrlC>>
  /\ UrlI \in store.fetched
  /\ store.cur[UrlHash[UrlC]] # NoContent

\* C29: in every success result of processSitemapIndex over N extracted
\* children, successCount + errorCount = N and newFeedsAdded is between 0
\* and N.
C29_ChildAccounting ==
  (ExpandedIndex(res) /\ res.r.success) =>
    /\ res.r.successCount + res.r.errorCount = Len(Scan(res.w[UrlI].body).sitemaps)
    /\ res.r.successCount >= 0
    /\ res.r.errorCount >= 0
    /\ res.r.newFeedsAdded >= 0
    /\ res.r.newFeedsAdded <= Len(Scan(res.w[UrlI].body).sitemaps)

C29_Witness ==
  /\ ExpandedIndex(res)
  /\ res.r.success
  /\ Len(Scan(res.w[UrlI].body).sitemaps) = 3
  /\ res.r.successCount = 2
  /\ res.r.errorCount = 1
  /\ res.r.newFeedsAdded = 1
  /\ UrlC \in Range(getFeeds(store))

\* the monitored feeds that serve a sitemap index
IndexFeeds(st) ==
  {u \in Range(getFeeds(st)) :
     \A response \in IndexResponses(u) : response.ok => IsIndexBody(response.body)}

\* C30 as the specification words it: after reprocessSitemapIndexes returns
\* success, totalIndexes is the number of monitored feeds whose document is
\* a sitemap index.
C30_ReprocessFindsIndexes ==
  (res.op = "reprocessSitemapIndexes" /\ res.r.success) =>
    res.r.totalIndexes = Cardinality(IndexFeeds(store))

\* the ids on the persisted reports list, in list order
ListIds(st) == [i \in 1..Len(st.reportsList) |-> st.reportsList[i].id]

\* the n most recently created of `created` reports, newest first
MostRecent(created, n) ==
  [i \in 1..(IF created < n THEN created ELSE n) |-> created - i + 1]

\* C31 as the specification words it: after generateReport calls that
\* created n reports (every key-value operation answered), the persisted
\* reports list is the min(n, 100) most recent reports, newest first.
C31_ListHoldsMostRecent ==
  store.failures = 0 => ListIds(store) = MostRecent(store.created, ReportsKept)

\* C32 as the specification words it: a report that a generateReport call
\* drops from the persisted reports list (every key-value operation
\* answered) has neither its report_{id} nor its report_meta_{id} key
\* afterwards.
C32_DroppedReportsDeleted ==
  [][store'.failures = 0 =>
       \A id \in Range(ListIds(store)) \ Range(ListIds(store')) :
          id \notin store'.reports /\ id \notin store'.metas]_vars

\* C33 as the specification words it: whatever documents the web serves,
\* addFeed(url) with its downloads and index expansions returns.
C33_ExpansionTerminates == (~res.done) ~> res.done

\* C36 as the specification words it: when a get of rss_feeds failed during
\* a call addFeed(url), expansion included, and no other command ran
\* meanwhile, every URL of the persisted list before the call is in it after
\* the call.
C36_ReadFailureKeepsList ==
  (res.done /\ res.readFailed /\ res.hooks = <<>>) =>
    Range(res.before) \subseteq Range(getFeeds(store))

\* the webhook commands of the call that succeeded and were not followed by
\* another one about the same URL
LastHooks(hooks) ==
  {hooks[k] : k \in {j \in 1..Len(hooks) :
                       /\ hooks[j].success
                       /\ \A l \in (j + 1)..Len(hooks) : hooks[l].url # hooks[j].url}}

\* C37 as the specification words it: after the check of a monitored feed
\* returned, a feed added by a webhook command during its index expansion
\* is in the persisted list and a feed removed by one is not.
C37_HookUpdatesKept ==
  (res.done /\ ~res.readFailed /\ res.url \in Range(res.before)) =>
    \A hook \in LastHooks(res.hooks) :
       /\ hook.kind = "addFeed" => hook.url \in Range(getFeeds(store))
       /\ hook.kind = "removeFeed" => hook.url \notin Range(getFeeds(store))

\* the snapshot keys of the feed v: current, previous, the archive of each
\* day, and the date of the last check
SnapshotOf(st, v) ==
  <<st.cur[UrlHash[v]], st.latest[UrlHash[v]], [d \in Days |-> st.dated[<<UrlHash[v], d>>]],
    st.last[UrlHash[v]]>>

\* C34 as the specification words it: a check of the monitored feed u leaves
\* the snapshot keys of every other monitored feed v as they were.
C34_FeedIsolation ==
  [][\A u \in IsoUrls, v \in IsoUrls :
       (/\ res'.op = "addFeed"
        /\ res'.url = u
        /\ v # u
        /\ {u, v} \subseteq Range(getFeeds(store))) =>
         SnapshotOf(store', v) = SnapshotOf(store, v)]_vars

\* C35 as the specification words it: a check that ends after it replaced
\* the stored current C of its feed by the fetched content returns, in its
\* newUrls, the URLs of the new current that C did not have.
C35_NoLostDelta ==
  [][(/\ res.op = "downloadSitemap"
      /\ ~res.done
      /\ res'.done
      /\ "current" \in res'.written
      /\ res.before[2] # NoContent) =>
       Range(compareSitemaps(store'.cur[UrlHash[res.url]], res.before[2]))
         \subseteq Range(res'.r.newUrls)]_vars

====
